---- MODULE Spec2Model ----
(***************************************************************************)
(* A model of the webchk crawl dispatcher (src/dispatcher.go): the         *)
(* followURLs dedup closure, the worker goroutines of concurrentURLgetter, *)
(* the goroutine closing the workers' channels, the coordinator goroutine  *)
(* of Dispatcher with its deferred calls, the context (cancel / deadline), *)
(* the idle timer and the consumer ranging over the returned channel.      *)
(*                                                                         *)
(* Strings are sequences of one-character strings, so that TrimSuffix,     *)
(* Contains and HasSuffix are computed as the Go library computes them.    *)
(***************************************************************************)
EXTENDS Integers, Sequences, FiniteSets, TLC

VARIABLES
    baseURL,        \* Dispatcher's baseURL argument
    ctxTimeout,     \* Dispatcher's ctxTimeout argument (in ticks)
    goWorkers,      \* GOWORKERS when Dispatcher is called
    site,           \* which site getURLer fetches from
    linkBufferSize, \* LINKBUFFERSIZE when Dispatcher is called
    idleWindow,     \* DISPATCHERTIMEOUT when Dispatcher is called (in ticks)
    ratePeriod,     \* ticks per token of the rate limiter (1 / HTTPRATESEC); 0: the limiter's timing is left out of account
    fetchMin,       \* the least number of ticks from receiving a refLink to getURLer's return
    slowConsumer,   \* whether the body of the consumer's loop over the Results is a step of its own
    now,            \* the time since Dispatcher was called (in ticks)
    ctxErr,         \* ctx.Err(): "none", "Canceled" or "DeadlineExceeded"
    timer,          \* the idle timer: its state ("armed", "fired" with a value in timeout.C, "drained") and expiry time
    links,          \* buffered channel links: its queued refLinks
    linksClosed,    \* close(links) has run
    wpc,            \* each worker goroutine's position
    wrl,            \* each worker's rl
    wres,           \* each worker's result
    wlinks,         \* each worker's links (returned by getURLer)
    wstart,         \* each worker's time of receiving its current refLink
    limNext,        \* rateLimit: the earliest time its next token can be had
    wtok,           \* each worker's time at which rateLimit.Wait lets it go
    fetched,        \* history: per URL, how many calls of getURLer were made for it
    fetchStarts,    \* history: the times at which getURLer was called, in order (kept when the limiter's timing is modelled)
    late,           \* history: the workers whose getURLer call was running when ctx was cancelled
    closerPc,       \* the goroutine running wg.Wait(); close(results); close(outputLinks)
    coordPc,        \* the coordinator goroutine's position
    hereLinks,      \* coordinator: the rest of hereLinks still to range over
    coordR,         \* coordinator: the Result r being forwarded
    uniqueURLs,     \* followURLs' map
    outCloses,      \* number of times close(resultsOutput) has run
    delivered,      \* Results the consumer received from resultsOutput, in order
    printing,       \* the consumer is in the body of its loop, with the Result it received last
    enqueued,       \* refLinks ever sent on links, in order (the seed first)
    logs,           \* lines printed to stdout, in order
    exitPath,       \* which return statement the coordinator took
    lastU,          \* followURLs test harness: argument of the last call
    lastOK,         \* followURLs test harness: result of the last call
    admitted,       \* followURLs test harness: per normalized URL, how often a call returned true
    callIn,         \* unit-test harness of the functions: the arguments of the call
    callOut         \* unit-test harness of the functions: what the call returned

vars == << baseURL, ctxTimeout, goWorkers, site, linkBufferSize, idleWindow,
           ratePeriod, fetchMin, slowConsumer, now,
           ctxErr, timer, links, linksClosed, wpc, wrl, wres,
           wlinks, late, wstart, limNext, wtok, fetched, fetchStarts,
           closerPc, coordPc, hereLinks, coordR, uniqueURLs, outCloses,
           delivered, printing, enqueued, logs, exitPath, lastU, lastOK, admitted,
           callIn, callOut >>

config == << baseURL, ctxTimeout, goWorkers, site, linkBufferSize, idleWindow,
             ratePeriod, fetchMin, slowConsumer >>

limVars == << limNext, wtok, fetched, fetchStarts >>

consumerVars == << printing >>

crawlVars == << now, ctxErr, timer, links, linksClosed, wpc, wrl, wres,
                wlinks, late, wstart, limVars, closerPc, coordPc, hereLinks, coordR,
                outCloses, delivered, consumerVars, enqueued, logs, exitPath >>

followVars == << lastU, lastOK, admitted >>

callVars == << callIn, callOut >>

harnessVars == << followVars, callVars >>

----------------------------------------------------------------------------
(* Bounds of the model *)

NumWorkers == 2
LinkBufferSize == 1
MaxAdmit == 3
BusyMax == 2

\* the worker goroutines started: for range GOWORKERS
Workers == 1..goWorkers

\* the values of ctxTimeout tried: negative, zero, positive
CtxTimeouts == {-1, 0, 1}

\* mutant: a timer that expires at once
NewTimerExpired(d, at) == [state |-> "armed", expires |-> at]

\* time.NewTimer(d) / timeout.Reset(d) at time at
NewTimer(d, at) == [state |-> "armed", expires |-> at + d]

\* mutant: a zero ctxTimeout makes a context with a deadline too
hasDeadlineAtZero == ctxTimeout >= 0

\* the switch on ctxTimeout: context.WithTimeout unless ctxTimeout <= 0
hasDeadline == ctxTimeout > 0

----------------------------------------------------------------------------
(* Strings *)

HasSuffix(s, suffix) ==
    /\ Len(s) >= Len(suffix)
    /\ SubSeq(s, Len(s) - Len(suffix) + 1, Len(s)) = suffix

HasPrefix(s, prefix) ==
    /\ Len(s) >= Len(prefix)
    /\ SubSeq(s, 1, Len(prefix)) = prefix

TrimSuffix(s, suffix) ==
    IF HasSuffix(s, suffix) THEN SubSeq(s, 1, Len(s) - Len(suffix)) ELSE s

Contains(s, substr) ==
    \E i \in 0..(Len(s) - Len(substr)) : SubSeq(s, i + 1, i + Len(substr)) = substr

URLSuffixesToSkip ==
    << <<".", "p", "n", "g">>, <<".", "j", "p", "g">>, <<".", "j", "p", "e", "g">>,
       <<".", "h", "e", "i", "c">>, <<".", "s", "v", "g">> >>

StatusOK == 200
StatusTooManyRequests == 429
StatusForbidden == 403

----------------------------------------------------------------------------
(* URLs.  "h" stands for the scheme "http://", "x" for the host of the site *)
(* crawled, "n" for another host.                                            *)

BaseURLs == { <<"h", "x">>, <<"h", "x", "/">> }

\* candidate links handed to followURLs directly (the unit-test harness)
HarnessURLs ==
    { <<"h", "x">>, <<"h", "x", "/">>, <<"h", "x", "/", "/">>,
      <<"h", "x", "/", "a">>, <<"h", "x", "/", "a", "/">>,
      <<"h", "x", "/", "a", "/", "/">>,
      <<"h", "x", "/", "b">>,
      <<"h", "x", "/", "c", ".", "p", "n", "g">>,
      <<"h", "x", "/", "c", ".", "P", "N", "G">>,
      <<"h", "x", "/", "c", ".", "p", "n", "g", "/">>,
      <<"h", "n", "/", "a">>, <<"h", "n", "/", "h", "x", "/", "a">> }

\* the link lists getURLer returns for the pages of the crawled site: no link,
\* one new page, two new pages, a page under both of its spellings with a link
\* to another site, the base URL itself with an image
LinkLists ==
    { << >>,
      << <<"h", "x", "/", "a">>, <<"h", "x", "/", "b">> >>,
      << <<"h", "x", "/", "a", "/">>, <<"h", "n", "/", "a">>, <<"h", "x", "/", "a">> >>,
      << <<"h", "x">>, <<"h", "x", "/", "c", ".", "p", "n", "g">>, <<"h", "x", "/", "b">> >> }

CrawlURLs == UNION { { ls[i] : i \in DOMAIN ls } : ls \in LinkLists }

----------------------------------------------------------------------------
(* followURLs: the closure's body as a function of the map it captures *)

Normalize(u) == TrimSuffix(u, <<"/">>)

SkipSuffix(u) ==
    \E i \in DOMAIN URLSuffixesToSkip : HasSuffix(u, URLSuffixesToSkip[i])

\* mutant: the map starts empty
followURLsInitEmpty(base) == {}

\* followURLs(baseURL): the map with the base URL in it
followURLsInit(base) == {base}

\* mutant: the candidate is not normalized before the checks
followNoTrim(unique, base, url) ==
    LET u == url IN
    IF ~Contains(u, base) THEN [ok |-> FALSE, unique |-> unique]
    ELSE IF u \in unique THEN [ok |-> FALSE, unique |-> unique]
    ELSE IF SkipSuffix(u) THEN [ok |-> FALSE, unique |-> unique]
    ELSE [ok |-> TRUE, unique |-> unique \cup {u}]

\* mutant: the candidate is recorded before the visited check rejects it
followRecordFirst(unique, base, url) ==
    LET u == Normalize(url) IN
    IF ~Contains(u, base) THEN [ok |-> FALSE, unique |-> unique]
    ELSE IF u \in unique THEN [ok |-> FALSE, unique |-> unique \cup {url}]
    ELSE IF SkipSuffix(u) THEN [ok |-> FALSE, unique |-> unique]
    ELSE [ok |-> TRUE, unique |-> unique \cup {u}]

\* mutant: an admitted candidate is not recorded
followNoRecord(unique, base, url) ==
    LET u == Normalize(url) IN
    IF ~Contains(u, base) THEN [ok |-> FALSE, unique |-> unique]
    ELSE IF u \in unique THEN [ok |-> FALSE, unique |-> unique]
    ELSE IF SkipSuffix(u) THEN [ok |-> FALSE, unique |-> unique]
    ELSE [ok |-> TRUE, unique |-> unique]

follow(unique, base, url) ==
    LET u == Normalize(url) IN
    IF ~Contains(u, base) THEN [ok |-> FALSE, unique |-> unique]
    ELSE IF u \in unique THEN [ok |-> FALSE, unique |-> unique]
    ELSE IF SkipSuffix(u) THEN [ok |-> FALSE, unique |-> unique]
    ELSE [ok |-> TRUE, unique |-> unique \cup {u}]

----------------------------------------------------------------------------
(* The unit-test harness of followURLs (TestFollowURLs): f := followURLs(base), *)
(* then any sequence of calls f(u).                                             *)

NormURLs == { Normalize(u) : u \in HarnessURLs \cup CrawlURLs \cup BaseURLs }

CrawlIdle ==
    /\ ctxTimeout = 0
    /\ goWorkers = 1
    /\ site = "any"
    /\ linkBufferSize = LinkBufferSize
    /\ idleWindow = 1
    /\ ratePeriod = 0
    /\ fetchMin = 0
    /\ slowConsumer = FALSE
    /\ now = 0
    /\ ctxErr = "none"
    /\ timer = NewTimer(idleWindow, now)
    /\ links = << >>
    /\ linksClosed = FALSE
    /\ wpc = [w \in Workers |-> "select"]
    /\ wrl = [w \in Workers |-> [url |-> << >>, referrer |-> << >>]]
    /\ wres = [w \in Workers |-> [url |-> << >>, referrer |-> << >>, status |-> 0, err |-> "nil"]]
    /\ wlinks = [w \in Workers |-> << >>]
    /\ wstart = [w \in Workers |-> 0]
    /\ limNext = 0
    /\ wtok = [w \in Workers |-> 0]
    /\ fetched = << >>
    /\ fetchStarts = << >>
    /\ late = {}
    /\ closerPc = "wait"
    /\ coordPc = "select"
    /\ hereLinks = << >>
    /\ coordR = [url |-> << >>, referrer |-> << >>, status |-> 0, err |-> "nil"]
    /\ outCloses = 0
    /\ delivered = << >>
    /\ printing = FALSE
    /\ enqueued = << >>
    /\ logs = << >>
    /\ exitPath = "none"

InitFollow ==
    /\ baseURL \in BaseURLs
    /\ uniqueURLs = followURLsInit(baseURL)
    /\ lastU = << >>
    /\ lastOK = FALSE
    /\ admitted = [n \in NormURLs |-> 0]
    /\ callIn = << >>
    /\ callOut = << >>
    /\ CrawlIdle

CallFollow(u) ==
    LET r == follow(uniqueURLs, baseURL, u) IN
    /\ admitted[Normalize(u)] < MaxAdmit
    /\ lastU' = u
    /\ lastOK' = r.ok
    /\ uniqueURLs' = r.unique
    /\ admitted' = IF r.ok THEN [admitted EXCEPT ![Normalize(u)] = @ + 1] ELSE admitted
    /\ UNCHANGED << config, crawlVars, callVars >>

NextFollow == \E u \in HarnessURLs : CallFollow(u)

SpecFollow == InitFollow /\ [][NextFollow]_vars

----------------------------------------------------------------------------
(* NewDispatch and its unit-test harness (TestNewDispatch): one call of     *)
(* NewDispatch(...) with any of the arguments tried.                         *)

GOWORKERS == 8
LINKBUFFERSIZE == 2500
HTTPRATESEC == 10

\* the largest number of workers, buffer size and rate handed to NewDispatch
MaxArg == 2

\* mutant: only a zero is replaced by the default, as NewGetClient does
NewDispatchZeroOnly(base, workers, bufferSize, httpRateSec, searchTerms, dispatcherTimeout, timeout, client) ==
    [baseURL |-> base,
     workers |-> IF workers = 0 THEN GOWORKERS ELSE workers,
     linkBufferSize |-> IF bufferSize = 0 THEN LINKBUFFERSIZE ELSE bufferSize,
     httpRateSec |-> IF httpRateSec = 0 THEN HTTPRATESEC ELSE httpRateSec,
     searchTerms |-> searchTerms,
     dispatcherTimeout |-> dispatcherTimeout,
     ctxTimeout |-> timeout,
     client |-> client]

\* NewDispatch: workers, bufferSize and httpRateSec below 1 give way to the defaults
NewDispatch(base, workers, bufferSize, httpRateSec, searchTerms, dispatcherTimeout, timeout, client) ==
    [baseURL |-> base,
     workers |-> IF workers < 1 THEN GOWORKERS ELSE workers,
     linkBufferSize |-> IF bufferSize < 1 THEN LINKBUFFERSIZE ELSE bufferSize,
     httpRateSec |-> IF httpRateSec < 1 THEN HTTPRATESEC ELSE httpRateSec,
     searchTerms |-> searchTerms,
     dispatcherTimeout |-> dispatcherTimeout,
     ctxTimeout |-> timeout,
     client |-> client]

\* the arguments tried
NewDispatchArgs ==
    [baseURL : BaseURLs, workers : -1..MaxArg, linkBufferSize : -1..MaxArg,
     httpRateSec : -1..MaxArg, searchTerms : {<< >>, <<"hi">>, <<"hi", "there">>},
     dispatcherTimeout : {0, 1}, timeout : {-1, 0, 1}, client : {"client"}]

\* no call made yet, no Dispatcher running
InitCall == InitFollow /\ baseURL = <<"h", "x">>

CallNewDispatch(a) ==
    /\ callIn = << >>
    /\ callIn' = a
    /\ callOut' = NewDispatch(a.baseURL, a.workers, a.linkBufferSize, a.httpRateSec,
                              a.searchTerms, a.dispatcherTimeout, a.timeout, a.client)
    /\ UNCHANGED << config, crawlVars, uniqueURLs, followVars >>

NextNewDispatch == \E a \in NewDispatchArgs : CallNewDispatch(a)

SpecNewDispatch == InitCall /\ [][NextNewDispatch]_vars

----------------------------------------------------------------------------
(* getMatches (web.go) and its unit-test harness (TestGetMatches).  A body  *)
(* is a sequence of bytes: letters, the newline, and "L", which stands for  *)
(* a run of MaxScanTokenSize bytes that are neither letters nor newlines.   *)

\* bufio.MaxScanTokenSize, the size of the buffer of bufio.NewScanner
MaxScanTokenSize == 65536

\* the longest body and the longest list of search terms tried
MaxBody == 3
MaxTerms == 2

NewLine == "\n"

BodyBytes == {"a", "A", "b", NewLine, "L"}

SearchTerms == { <<"a">>, <<"A">>, <<"b">>, <<"a", "b">> }

SeqsUpTo(S, n) == UNION { [1..k -> S] : k \in 0..n }

RECURSIVE ByteLen(_)
ByteLen(s) ==
    IF s = << >> THEN 0
    ELSE (IF Head(s) = "L" THEN MaxScanTokenSize ELSE 1) + ByteLen(Tail(s))

\* strings.ToLower
ToLower(s) == [i \in DOMAIN s |-> IF s[i] = "A" THEN "a" ELSE s[i]]

\* the index of the first newline of body at or after i, Len(body) + 1 if none
NextNewLine(body, i) ==
    IF \E j \in i..Len(body) : body[j] = NewLine
    THEN CHOOSE j \in i..Len(body) :
             body[j] = NewLine /\ \A k \in i..(j - 1) : body[k] # NewLine
    ELSE Len(body) + 1

\* bufio.Scanner (ScanLines): the values of scanner.Text() for which
\* scanner.Scan() returns true, from byte i of body on; Scan returns false at
\* the end of the body and at a line that does not fit the buffer
RECURSIVE Scan(_, _)
Scan(body, i) ==
    IF i > Len(body) THEN << >>
    ELSE LET j == NextNewLine(body, i)
             text == SubSeq(body, i, j - 1)
         IN  IF ByteLen(text) >= MaxScanTokenSize
             THEN << >>
             ELSE << text >> \o Scan(body, j + 1)

\* for _, st := range searchTerms, for the line with number lineNo
RECURSIVE LineMatches(_, _, _)
LineMatches(text, lineNo, searchTerms) ==
    IF searchTerms = << >> THEN << >>
    ELSE LET st == Head(searchTerms)
             rest == LineMatches(text, lineNo, Tail(searchTerms))
         IN  IF Contains(ToLower(text), ToLower(st))
             THEN << [line |-> lineNo, match |-> st] >> \o rest
             ELSE rest

\* for scanner.Scan() { lineNo++ ... }
RECURSIVE ScanMatches(_, _, _)
ScanMatches(lines, lineNo, searchTerms) ==
    IF lines = << >> THEN << >>
    ELSE LineMatches(Head(lines), lineNo + 1, searchTerms)
             \o ScanMatches(Tail(lines), lineNo + 1, searchTerms)

getMatches(body, searchTerms) ==
    IF Len(searchTerms) = 0 THEN << >>
    ELSE ScanMatches(Scan(body, 1), 0, searchTerms)

CallGetMatches(body, searchTerms) ==
    /\ callIn = << >>
    /\ callIn' = [body |-> body, searchTerms |-> searchTerms]
    /\ callOut' = getMatches(body, searchTerms)
    /\ UNCHANGED << config, crawlVars, uniqueURLs, followVars >>

NextGetMatches ==
    \E body \in SeqsUpTo(BodyBytes, MaxBody), searchTerms \in SeqsUpTo(SearchTerms, MaxTerms) :
        CallGetMatches(body, searchTerms)

SpecGetMatches == InitCall /\ [][NextGetMatches]_vars

----------------------------------------------------------------------------
(* getClient.get (web.go) and its unit-test harness (TestGetURL): one call  *)
(* of get against a server answering in any of the ways tried.              *)

StatusNoContent == 204
StatusNotFound == 404

\* what getLinks returns: the links of the page, or no links and an error
\* when the page cannot be parsed
GetLinksOutcomes ==
    { [links |-> ls, err |-> "nil"] : ls \in LinkLists }
        \cup { [links |-> << >>, err |-> "could not parse file"] }

\* the answers to g.client.Get(url) and what follows from them: no response
\* (transport error) or a response with a status and a Content-Type header,
\* whether its body can be read, the body, and what getLinks makes of it
Responses ==
    [transportErr : BOOLEAN,
     status : {StatusOK, StatusNoContent, StatusForbidden, StatusNotFound,
               StatusTooManyRequests},
     contentType : { << >>, <<"text/html">>, <<"text/html", "; charset=utf-8">>,
                     <<"application/json">> },
     readErr : BOOLEAN,
     body : { << >>, <<"a", NewLine, "A">> },
     getLinks : GetLinksOutcomes]

\* mutant: the links are extracted before the Content-Type is looked at
getLinksFirst(url, referrer, searchTerms, resp) ==
    LET r == [url |-> url, referrer |-> referrer, status |-> 0,
              matches |-> << >>, err |-> "nil"]
        noLinks == << >>
    IN  IF resp.transportErr
        THEN [result |-> [r EXCEPT !.err = "transport"], links |-> noLinks]
        ELSE IF resp.status # StatusOK
        THEN [result |-> [r EXCEPT !.status = resp.status, !.err = "StatusNotOk"],
              links |-> noLinks]
        ELSE IF resp.readErr
        THEN [result |-> [r EXCEPT !.status = resp.status, !.err = "file reading error"],
              links |-> noLinks]
        ELSE IF resp.getLinks.err # "nil"
        THEN [result |-> [r EXCEPT !.status = resp.status, !.err = "links error"],
              links |-> resp.getLinks.links]
        ELSE IF ~Contains(resp.contentType, <<"text/html">>)
        THEN [result |-> [r EXCEPT !.status = resp.status, !.err = "NonHTMLPageType"],
              links |-> resp.getLinks.links]
        ELSE [result |-> [r EXCEPT !.status = resp.status,
                                   !.matches = getMatches(resp.body, searchTerms)],
              links |-> resp.getLinks.links]

\* mutant: the Content-Type is looked at before the status
getContentTypeFirst(url, referrer, searchTerms, resp) ==
    LET r == [url |-> url, referrer |-> referrer, status |-> 0,
              matches |-> << >>, err |-> "nil"]
        noLinks == << >>
    IN  IF resp.transportErr
        THEN [result |-> [r EXCEPT !.err = "transport"], links |-> noLinks]
        ELSE IF ~Contains(resp.contentType, <<"text/html">>)
        THEN [result |-> [r EXCEPT !.status = resp.status, !.err = "NonHTMLPageType"],
              links |-> noLinks]
        ELSE IF resp.status # StatusOK
        THEN [result |-> [r EXCEPT !.status = resp.status, !.err = "StatusNotOk"],
              links |-> noLinks]
        ELSE IF resp.readErr
        THEN [result |-> [r EXCEPT !.status = resp.status, !.err = "file reading error"],
              links |-> noLinks]
        ELSE IF resp.getLinks.err # "nil"
        THEN [result |-> [r EXCEPT !.status = resp.status, !.err = "links error"],
              links |-> resp.getLinks.links]
        ELSE [result |-> [r EXCEPT !.status = resp.status,
                                   !.matches = getMatches(resp.body, searchTerms)],
              links |-> resp.getLinks.links]

\* get: the Result and the links returned when the server answers with resp
get(url, referrer, searchTerms, resp) ==
    LET r == [url |-> url, referrer |-> referrer, status |-> 0,
              matches |-> << >>, err |-> "nil"]
        noLinks == << >>
    IN  IF resp.transportErr
        THEN [result |-> [r EXCEPT !.err = "transport"], links |-> noLinks]
        ELSE IF resp.status # StatusOK
        THEN [result |-> [r EXCEPT !.status = resp.status, !.err = "StatusNotOk"],
              links |-> noLinks]
        ELSE IF ~Contains(resp.contentType, <<"text/html">>)
        THEN [result |-> [r EXCEPT !.status = resp.status, !.err = "NonHTMLPageType"],
              links |-> noLinks]
        ELSE IF resp.readErr
        THEN [result |-> [r EXCEPT !.status = resp.status, !.err = "file reading error"],
              links |-> noLinks]
        ELSE IF resp.getLinks.err # "nil"
        THEN [result |-> [r EXCEPT !.status = resp.status, !.err = "links error"],
              links |-> resp.getLinks.links]
        ELSE [result |-> [r EXCEPT !.status = resp.status,
                                   !.matches = getMatches(resp.body, searchTerms)],
              links |-> resp.getLinks.links]

CallGet(url, referrer, searchTerms, resp) ==
    /\ callIn = << >>
    /\ callIn' = [url |-> url, referrer |-> referrer, searchTerms |-> searchTerms,
                  resp |-> resp]
    /\ callOut' = get(url, referrer, searchTerms, resp)
    /\ UNCHANGED << config, crawlVars, uniqueURLs, followVars >>

NextGet ==
    \E url \in { <<"h", "x">>, <<"h", "x", "/", "a">> },
       referrer \in { <<"/">>, <<"h", "x">> },
       searchTerms \in { << >>, << <<"a">> >> },
       resp \in Responses :
        CallGet(url, referrer, searchTerms, resp)

SpecGet == InitCall /\ [][NextGet]_vars

----------------------------------------------------------------------------
(* Dispatcher: the state when Dispatcher returns resultsOutput *)

ZeroRefLink == [url |-> << >>, referrer |-> << >>]
ZeroResult == [url |-> << >>, referrer |-> << >>, status |-> 0, err |-> "nil"]

SeedLink(base) == [url |-> base, referrer |-> <<"/">>]

Statuses == {StatusOK, StatusForbidden, StatusTooManyRequests}

\* the sites crawled: "any", where a page answers with any status and, if 200,
\* any of LinkLists; "twoLinks", where every page answers 200 and links to the
\* same two pages (TestDispatcher's prefixer("1", "2"))
Sites == {"any", "twoLinks"}

\* the sites crawled with time taken into account: "noLinks", where every page
\* answers 200 and has no links (TestDispatcher's prefixer()), and "twoLinks"
TimedSites == {"noLinks", "twoLinks"}

TwoLinks == << <<"h", "x", "/", "a">>, <<"h", "x", "/", "b">> >>

\* what get can return for a page (web.go): a page with links, a response that
\* is not 200 (403, 429), a page that is not HTML, no response at all
\* (transport error, status left 0), a body that could not be read or parsed
ErrorPages ==
    { [status |-> StatusOK, err |-> "nil", links |-> TwoLinks],
      [status |-> StatusForbidden, err |-> "StatusNotOk", links |-> << >>],
      [status |-> StatusTooManyRequests, err |-> "StatusNotOk", links |-> << >>],
      [status |-> StatusOK, err |-> "NonHTMLPageType", links |-> << >>],
      [status |-> 0, err |-> "transport", links |-> << >>],
      [status |-> StatusOK, err |-> "parse", links |-> << >>] }

\* what getURLer can return for a page of site s: a status and links
Pages(s) ==
    IF s = "twoLinks"
    THEN { [status |-> StatusOK, err |-> "nil", links |-> TwoLinks] }
    ELSE IF s = "noLinks"
    THEN { [status |-> StatusOK, err |-> "nil", links |-> << >>] }
    ELSE IF s = "errors"
    THEN ErrorPages
    ELSE { pg \in [status : Statuses, err : {"nil", "StatusNotOk"}, links : LinkLists] :
             /\ pg.status = StatusOK \/ pg.links = << >>
             /\ pg.err = "StatusNotOk" <=> pg.status # StatusOK }

\* the links of the page at u on the site "fresh", where every page links to
\* two pages no other page links to (TestDispatcher's prefixerRandom)
FreshLinks(u) ==
    LET stem == IF Normalize(u) = <<"h", "x">> THEN <<"h", "x", "/">> ELSE u
    IN  << stem \o <<"0">>, stem \o <<"1">> >>

\* what getURLer can return for the page at u of site s
PagesAt(s, u) ==
    IF s = "fresh"
    THEN { [status |-> StatusOK, err |-> "nil", links |-> FreshLinks(u)] }
    ELSE Pages(s)

\* the configurations crawled with time left out of account: every site with
\* one worker and with NumWorkers workers, with or without a deadline; a base URL ending in a
\* slash and a negative ctxTimeout with one worker; the site of the two links
\* with every buffer size
Configs ==
    { c \in [baseURL : BaseURLs, ctxTimeout : CtxTimeouts,
             goWorkers : {1, NumWorkers}, site : Sites,
             linkBufferSize : 1..LinkBufferSize, idleWindow : {1},
             ratePeriod : {0}, fetchMin : {0}, slowConsumer : {FALSE}] :
        /\ c.goWorkers > 1 => (c.baseURL = <<"h", "x">> /\ c.ctxTimeout >= 0)
        /\ c.site = "any" => c.linkBufferSize = LinkBufferSize }

\* the state when Dispatcher has started its goroutines, called with c
Start(c) ==
    /\ baseURL = c.baseURL
    /\ ctxTimeout = c.ctxTimeout
    /\ goWorkers = c.goWorkers
    /\ site = c.site
    /\ linkBufferSize = c.linkBufferSize
    /\ idleWindow = c.idleWindow
    /\ ratePeriod = c.ratePeriod
    /\ fetchMin = c.fetchMin
    /\ slowConsumer = c.slowConsumer
    /\ now = 0
    /\ ctxErr = "none"
    /\ timer = NewTimer(idleWindow, now)
    /\ links = << SeedLink(baseURL) >>
    /\ linksClosed = FALSE
    /\ wpc = [w \in Workers |-> "select"]
    /\ wrl = [w \in Workers |-> ZeroRefLink]
    /\ wres = [w \in Workers |-> ZeroResult]
    /\ wlinks = [w \in Workers |-> << >>]
    /\ wstart = [w \in Workers |-> 0]
    /\ limNext = 0
    /\ wtok = [w \in Workers |-> 0]
    /\ fetched = << >>
    /\ fetchStarts = << >>
    /\ late = {}
    /\ closerPc = "wait"
    /\ coordPc = "select"
    /\ hereLinks = << >>
    /\ coordR = ZeroResult
    /\ uniqueURLs = followURLsInit(baseURL)
    /\ outCloses = 0
    /\ delivered = << >>
    /\ printing = FALSE
    /\ enqueued = << SeedLink(baseURL) >>
    /\ logs = << >>
    /\ exitPath = "none"
    /\ lastU = << >>
    /\ lastOK = FALSE
    /\ admitted = [n \in NormURLs |-> 0]
    /\ callIn = << >>
    /\ callOut = << >>

Init == \E c \in Configs : Start(c)

\* the configurations with a deadline
InitDeadline == \E c \in { x \in Configs : x.ctxTimeout > 0 } : Start(c)

\* the configurations crawled with time taken into account: sites without a
\* 429, ctxTimeout none, one or two ticks, DISPATCHERTIMEOUT from one tick to
\* one more than a rate-limit wait and fetch can last
TimedConfigs ==
    [baseURL : {<<"h", "x">>}, ctxTimeout : {0, 1, 2},
     goWorkers : 1..NumWorkers, site : TimedSites,
     linkBufferSize : {1, 2}, idleWindow : 1..(BusyMax + 1),
     ratePeriod : {0}, fetchMin : {0}, slowConsumer : {FALSE}]

InitTimed == \E c \in TimedConfigs : Start(c)

\* the configurations crawled with the rate limiter's timing modelled: a
\* token every one or two ticks (TestRateLimit), one to NumWorkers workers,
\* with and without a deadline, a short and a long DISPATCHERTIMEOUT
RateConfigs ==
    [baseURL : {<<"h", "x">>}, ctxTimeout : {0, 3},
     goWorkers : 1..NumWorkers, site : {"twoLinks"},
     linkBufferSize : {2}, idleWindow : {1, BusyMax + 3},
     ratePeriod : {1, 2}, fetchMin : {0}, slowConsumer : {FALSE}]

InitRate == \E c \in RateConfigs : Start(c)

\* the configurations crawling the site whose pages fail in every way get
\* can fail
ErrorConfigs ==
    [baseURL : {<<"h", "x">>}, ctxTimeout : {0, 1},
     goWorkers : {1, NumWorkers}, site : {"errors"},
     linkBufferSize : {LinkBufferSize + 1}, idleWindow : {1},
     ratePeriod : {0}, fetchMin : {0}, slowConsumer : {FALSE}]

InitErrors == \E c \in ErrorConfigs : Start(c)

----------------------------------------------------------------------------
(* The context and the idle timer *)

ctxDone == ctxErr # "none"

\* the workers whose call of getURLer is running
Fetching == { w \in Workers : wpc[w] = "fetch" }

\* context.WithTimeout's deadline passes
Deadline ==
    /\ hasDeadline
    /\ ctxErr = "none"
    /\ ctxErr' = "DeadlineExceeded"
    /\ late' = Fetching
    /\ UNCHANGED << config, now, timer, links, linksClosed, wpc, wrl, wres,
                    wlinks, wstart, closerPc, coordPc, hereLinks, coordR, uniqueURLs,
                    outCloses, delivered, enqueued, logs, exitPath, harnessVars, limVars, consumerVars >>

\* DISPATCHERTIMEOUT passes since the timer was made or last reset
TimerFire ==
    /\ timer.state = "armed"
    /\ exitPath = "none"
    /\ timer' = [timer EXCEPT !.state = "fired"]
    /\ UNCHANGED << config, now, ctxErr, links, linksClosed, wpc, wrl, wres,
                    wlinks, late, wstart, closerPc, coordPc, hereLinks, coordR, uniqueURLs,
                    outCloses, delivered, enqueued, logs, exitPath, harnessVars, limVars, consumerVars >>

\* mutant: an expired timer is left as it is
toResetterKeepsExpired(t) == t

\* toResetter: Stop, drain timeout.C if the timer had fired, Reset
toResetter(t) == NewTimer(idleWindow, now)

----------------------------------------------------------------------------
(* The worker goroutines of concurrentURLgetter *)

WorkerExit(w) ==
    /\ wpc' = [wpc EXCEPT ![w] = "done"]
    /\ wrl' = [wrl EXCEPT ![w] = ZeroRefLink]
    /\ wres' = [wres EXCEPT ![w] = ZeroResult]
    /\ wlinks' = [wlinks EXCEPT ![w] = << >>]
    /\ late' = late \ {w}
    /\ wstart' = [wstart EXCEPT ![w] = 0]

coordUnchanged ==
    UNCHANGED << config, now, ctxErr, timer, linksClosed, closerPc, coordPc,
                 hereLinks, coordR, uniqueURLs, outCloses, delivered, enqueued, logs,
                 exitPath, harnessVars, limVars, consumerVars >>

\* mutant: the select on inputURLs has no ctx.Done() case
WorkerCtxDoneSendsOnly(w) ==
    /\ wpc[w] \in {"sendResult", "sendLinks"}
    /\ ctxDone
    /\ WorkerExit(w)
    /\ UNCHANGED links
    /\ coordUnchanged

\* mutant: the sends on results and outputLinks are not guarded by ctx.Done()
WorkerCtxDoneFirstSelectOnly(w) ==
    /\ wpc[w] \in {"select"}
    /\ ctxDone
    /\ WorkerExit(w)
    /\ UNCHANGED links
    /\ coordUnchanged

\* case <-ctx.Done(): return, at any of the worker's three selects
WorkerCtxDone(w) ==
    /\ wpc[w] \in {"select", "sendResult", "sendLinks"}
    /\ ctxDone
    /\ WorkerExit(w)
    /\ UNCHANGED links
    /\ coordUnchanged

\* mutant: the entry received stays in the buffer
WorkerRecvNoDequeue(w) ==
    /\ wpc[w] = "select"
    /\ links # << >>
    /\ wrl' = [wrl EXCEPT ![w] = Head(links)]
    /\ links' = links
    /\ wpc' = [wpc EXCEPT ![w] = "wait"]
    /\ wstart' = [wstart EXCEPT ![w] = now]
    /\ UNCHANGED << wres, wlinks, late >>
    /\ coordUnchanged

\* case rl := <-inputURLs, an entry is queued
WorkerRecv(w) ==
    /\ wpc[w] = "select"
    /\ links # << >>
    /\ wrl' = [wrl EXCEPT ![w] = Head(links)]
    /\ links' = Tail(links)
    /\ wpc' = [wpc EXCEPT ![w] = "wait"]
    /\ wstart' = [wstart EXCEPT ![w] = now]
    /\ UNCHANGED << wres, wlinks, late >>
    /\ coordUnchanged

\* case rl := <-inputURLs, the channel is closed and empty: the zero refLink
WorkerRecvClosed(w) ==
    /\ wpc[w] = "select"
    /\ links = << >>
    /\ linksClosed
    /\ wrl' = [wrl EXCEPT ![w] = ZeroRefLink]
    /\ wpc' = [wpc EXCEPT ![w] = "wait"]
    /\ UNCHANGED << links, wres, wlinks, late, wstart >>
    /\ coordUnchanged

\* mutant: the error of rateLimit.Wait is ignored and getURLer is called
WorkerWaitCancelledFetches(w) ==
    /\ wpc[w] = "wait"
    /\ ctxDone
    /\ wpc' = [wpc EXCEPT ![w] = "fetch"]
    /\ UNCHANGED << links, wrl, wres, wlinks, late, wstart >>
    /\ coordUnchanged

\* rateLimit.Wait(ctx) finds ctx done on entry: err != nil, return
WorkerWaitCancelled(w) ==
    /\ wpc[w] = "wait"
    /\ ctxDone
    /\ WorkerExit(w)
    /\ UNCHANGED links
    /\ coordUnchanged

\* mutant: a limiter that lets every caller go at once
TokenAtOnce(t) == t

\* rateLimit, a token bucket of burst 1 refilled every ratePeriod: the time at
\* which a token asked for at time t can be had
TokenAt(t) == IF t >= limNext THEN t ELSE limNext

\* rateLimit.Wait(ctx): the wait for a token would pass ctx's deadline:
\* err != nil, return
WorkerWaitExceed(w) ==
    /\ wpc[w] = "wait"
    /\ ~ctxDone
    /\ hasDeadline
    /\ ratePeriod > 0 => TokenAt(now) > ctxTimeout
    /\ WorkerExit(w)
    /\ UNCHANGED links
    /\ coordUnchanged

\* rateLimit.Wait(ctx) reserves a token and waits for it
WorkerWaitReserve(w) ==
    /\ wpc[w] = "wait"
    /\ ~ctxDone
    /\ (ratePeriod > 0 /\ hasDeadline) => TokenAt(now) <= ctxTimeout
    /\ wpc' = [wpc EXCEPT ![w] = "sleep"]
    /\ wtok' = IF ratePeriod > 0 THEN [wtok EXCEPT ![w] = TokenAt(now)] ELSE wtok
    /\ limNext' = IF ratePeriod > 0 THEN TokenAt(now) + ratePeriod ELSE limNext
    /\ UNCHANGED << links, wrl, wres, wlinks, late, wstart, fetched, fetchStarts >>
    /\ UNCHANGED << config, now, ctxErr, timer, linksClosed, closerPc, coordPc,
                    hereLinks, coordR, uniqueURLs, outCloses, delivered, enqueued, logs,
                    exitPath, harnessVars, consumerVars >>

\* rateLimit.Wait(ctx), waiting: ctx is done first: err != nil, return
WorkerSleepCancelled(w) ==
    /\ wpc[w] = "sleep"
    /\ ctxDone
    /\ WorkerExit(w)
    /\ UNCHANGED links
    /\ coordUnchanged

\* one more call of getURLer for url u
CountFetch(f, u) ==
    IF u \in DOMAIN f THEN [f EXCEPT ![u] = @ + 1] ELSE f @@ (u :> 1)

\* rateLimit.Wait(ctx) returns nil: getURLer is called
WorkerToken(w) ==
    /\ wpc[w] = "sleep"
    /\ ratePeriod > 0 => now >= wtok[w]
    /\ wpc' = [wpc EXCEPT ![w] = "fetch"]
    /\ fetched' = CountFetch(fetched, wrl[w].url)
    /\ fetchStarts' = IF ratePeriod > 0 THEN Append(fetchStarts, now) ELSE fetchStarts
    /\ UNCHANGED << links, wrl, wres, wlinks, late, wstart, limNext, wtok >>
    /\ UNCHANGED << config, now, ctxErr, timer, linksClosed, closerPc, coordPc,
                    hereLinks, coordR, uniqueURLs, outCloses, delivered, enqueued, logs,
                    exitPath, harnessVars, consumerVars >>

\* getURLer returns: a Result for rl and, for a page with status 200, its links
WorkerFetch(w) ==
    /\ wpc[w] = "fetch"
    /\ now - wstart[w] >= fetchMin
    /\ \E pg \in PagesAt(site, wrl[w].url) :
          /\ wres' = [wres EXCEPT ![w] = [url |-> wrl[w].url,
                                          referrer |-> wrl[w].referrer,
                                          status |-> pg.status,
                                          err |-> pg.err]]
          /\ wlinks' = [wlinks EXCEPT ![w] = pg.links]
    /\ wpc' = [wpc EXCEPT ![w] = "sendResult"]
    /\ UNCHANGED << links, wrl, late, wstart >>
    /\ coordUnchanged

\* mutant: each link keeps the referrer of the page it was found on
refLinksOfPageReferrer(ls, res) == [i \in DOMAIN ls |-> [url |-> ls[i], referrer |-> res.referrer]]

\* refLinks: each link with result.url as its referrer
refLinksOf(ls, res) == [i \in DOMAIN ls |-> [url |-> ls[i], referrer |-> res.url]]

----------------------------------------------------------------------------
(* The coordinator goroutine of Dispatcher *)

MsgNoSpace == "no space left on buffer"
MsgTooMany == "too many requests error. quitting..."
MsgDeadline == "deadline exceeded. quitting..."

\* a return statement of the coordinator's loop: the deferred calls run next
CoordReturn(path) ==
    /\ exitPath' = path
    /\ coordPc' = "defer1"

\* mutant: a 429 Result is logged and forwarded like any other
CoordOnResultForward429(r) ==
    /\ timer' = toResetter(timer)
    /\ logs' = IF r.status = StatusTooManyRequests THEN Append(logs, MsgTooMany) ELSE logs
    /\ coordR' = r
    /\ coordPc' = "forward"
    /\ UNCHANGED exitPath

\* mutant: a Result that is not a 200 is dropped instead of forwarded
CoordOnResultDropErrors(r) ==
    /\ timer' = toResetter(timer)
    /\ IF r.status = StatusTooManyRequests
       THEN /\ logs' = Append(logs, MsgTooMany)
            /\ CoordReturn("tooManyRequests")
            /\ coordR' = coordR
       ELSE IF r.status # StatusOK
       THEN UNCHANGED << coordR, coordPc, logs, exitPath >>
       ELSE /\ coordR' = r
            /\ coordPc' = "forward"
            /\ UNCHANGED << logs, exitPath >>

\* mutant: a Result carrying an error ends the crawl
CoordOnResultErrStops(r) ==
    /\ timer' = toResetter(timer)
    /\ IF r.status = StatusTooManyRequests \/ r.err # "nil"
       THEN /\ logs' = Append(logs, MsgTooMany)
            /\ CoordReturn("tooManyRequests")
            /\ coordR' = coordR
       ELSE /\ coordR' = r
            /\ coordPc' = "forward"
            /\ UNCHANGED << logs, exitPath >>

\* case r, ok := <-results with ok: the body of the case
CoordOnResult(r) ==
    /\ timer' = toResetter(timer)
    /\ IF r.status = StatusTooManyRequests
       THEN /\ logs' = Append(logs, MsgTooMany)
            /\ CoordReturn("tooManyRequests")
            /\ coordR' = coordR
       ELSE /\ coordR' = r
            /\ coordPc' = "forward"
            /\ UNCHANGED << logs, exitPath >>

\* results <- result in a worker meets case r, ok := <-results in the coordinator
SendResult(w) ==
    /\ wpc[w] = "sendResult"
    /\ coordPc = "select"
    /\ CoordOnResult(wres[w])
    /\ wpc' = [wpc EXCEPT ![w] = "sendLinks"]
    /\ late' = late \ {w}
    /\ UNCHANGED wstart
    /\ UNCHANGED << config, now, ctxErr, links, linksClosed, wrl, wres, wlinks,
                    closerPc, hereLinks, uniqueURLs, outCloses, delivered, enqueued,
                    harnessVars, limVars, consumerVars >>

\* resultsOutput <- r: the consumer ranging over resultsOutput receives r
Forward ==
    /\ coordPc = "forward"
    /\ ~printing
    /\ delivered' = Append(delivered, coordR)
    /\ printing' = slowConsumer
    /\ coordR' = ZeroResult
    /\ coordPc' = "select"
    /\ UNCHANGED << config, now, ctxErr, timer, links, linksClosed, wpc, wrl,
                    wres, wlinks, late, wstart, closerPc, hereLinks, uniqueURLs, outCloses, enqueued,
                    logs, exitPath, harnessVars, limVars >>

\* the consumer has run the body of its loop (printResults' prints) and is
\* back at its receive from resultsOutput
ConsumerPrinted ==
    /\ printing
    /\ printing' = FALSE
    /\ UNCHANGED << config, now, ctxErr, timer, links, linksClosed, wpc, wrl,
                    wres, wlinks, late, wstart, closerPc, coordPc, hereLinks, coordR,
                    uniqueURLs, outCloses, delivered, enqueued, logs, exitPath,
                    harnessVars, limVars >>

\* mutant: the worker records its links in followURLs' map as it sends them
SendLinksRecording(w) ==
    /\ wpc[w] = "sendLinks"
    /\ coordPc = "select"
    /\ hereLinks' = refLinksOf(wlinks[w], wres[w])
    /\ uniqueURLs' = uniqueURLs \cup { Normalize(wlinks[w][i]) : i \in DOMAIN wlinks[w] }
    /\ coordPc' = IF wlinks[w] = << >> THEN "select" ELSE "range"
    /\ wpc' = [wpc EXCEPT ![w] = "select"]
    /\ wrl' = [wrl EXCEPT ![w] = ZeroRefLink]
    /\ wres' = [wres EXCEPT ![w] = ZeroResult]
    /\ wlinks' = [wlinks EXCEPT ![w] = << >>]
    /\ UNCHANGED << config, now, ctxErr, timer, links, linksClosed, late, wstart, closerPc,
                    coordR, outCloses, delivered, enqueued, logs, exitPath,
                    harnessVars, limVars, consumerVars >>

\* outputLinks <- refLinks in a worker meets case hereLinks, ok := <-linksFound
SendLinks(w) ==
    /\ wpc[w] = "sendLinks"
    /\ coordPc = "select"
    /\ hereLinks' = refLinksOf(wlinks[w], wres[w])
    /\ coordPc' = IF wlinks[w] = << >> THEN "select" ELSE "range"
    /\ wpc' = [wpc EXCEPT ![w] = "select"]
    /\ wrl' = [wrl EXCEPT ![w] = ZeroRefLink]
    /\ wres' = [wres EXCEPT ![w] = ZeroResult]
    /\ wlinks' = [wlinks EXCEPT ![w] = << >>]
    /\ UNCHANGED << config, now, ctxErr, timer, links, linksClosed, late, wstart, closerPc,
                    coordR, uniqueURLs, outCloses, delivered, enqueued, logs, exitPath,
                    harnessVars, limVars, consumerVars >>

\* select { case links <- l: default: }: is there room in the buffer
LinksHasRoom == Len(links) < linkBufferSize

\* mutant: with no room in the buffer the link is dropped and the loop goes on
CoordOnLinkDrop(l) ==
    LET f == follow(uniqueURLs, baseURL, l.url) IN
    /\ uniqueURLs' = f.unique
    /\ hereLinks' = Tail(hereLinks)
    /\ coordPc' = IF Tail(hereLinks) = << >> THEN "select" ELSE "range"
    /\ IF f.ok /\ LinksHasRoom
       THEN /\ links' = Append(links, l)
            /\ enqueued' = Append(enqueued, l)
            /\ UNCHANGED << logs, exitPath >>
       ELSE UNCHANGED << links, enqueued, logs, exitPath >>

\* one iteration of for _, l := range hereLinks
CoordOnLink(l) ==
    LET f == follow(uniqueURLs, baseURL, l.url) IN
    /\ uniqueURLs' = f.unique
    /\ IF ~f.ok
       THEN /\ hereLinks' = Tail(hereLinks)
            /\ coordPc' = IF Tail(hereLinks) = << >> THEN "select" ELSE "range"
            /\ UNCHANGED << links, enqueued, logs, exitPath >>
       ELSE IF LinksHasRoom
       THEN /\ links' = Append(links, l)
            /\ enqueued' = Append(enqueued, l)
            /\ hereLinks' = Tail(hereLinks)
            /\ coordPc' = IF Tail(hereLinks) = << >> THEN "select" ELSE "range"
            /\ UNCHANGED << logs, exitPath >>
       ELSE /\ logs' = Append(logs, MsgNoSpace)
            /\ CoordReturn("bufferFull")
            /\ hereLinks' = << >>
            /\ UNCHANGED << links, enqueued >>

CoordRange ==
    /\ coordPc = "range"
    /\ CoordOnLink(Head(hereLinks))
    /\ UNCHANGED << config, now, ctxErr, timer, linksClosed, wpc, wrl, wres,
                    wlinks, late, wstart, closerPc, coordR, outCloses, delivered, harnessVars, limVars, consumerVars >>

\* case hereLinks, ok := <-linksFound with !ok: return
CoordLinksFoundClosed ==
    /\ coordPc = "select"
    /\ closerPc = "done"
    /\ CoordReturn("linksFoundClosed")
    /\ UNCHANGED << config, now, ctxErr, timer, links, linksClosed, wpc, wrl,
                    wres, wlinks, late, wstart, closerPc, hereLinks, coordR, uniqueURLs, outCloses,
                    delivered, enqueued, logs, harnessVars, limVars, consumerVars >>

\* case r, ok := <-results with !ok: return
CoordResultsClosed ==
    /\ coordPc = "select"
    /\ closerPc \in {"closedResults", "done"}
    /\ CoordReturn("resultsClosed")
    /\ UNCHANGED << config, now, ctxErr, timer, links, linksClosed, wpc, wrl,
                    wres, wlinks, late, wstart, closerPc, hereLinks, coordR, uniqueURLs, outCloses,
                    delivered, enqueued, logs, harnessVars, limVars, consumerVars >>

\* mutant: the timer's case goes round the loop again
CoordTimeoutLoops ==
    /\ coordPc = "select"
    /\ timer.state = "fired"
    /\ timer' = [timer EXCEPT !.state = "drained"]
    /\ UNCHANGED << coordPc, exitPath >>
    /\ UNCHANGED << config, now, ctxErr, links, linksClosed, wpc, wrl,
                    wres, wlinks, late, wstart, closerPc, hereLinks, coordR, uniqueURLs, outCloses,
                    delivered, enqueued, logs, harnessVars, limVars, consumerVars >>

\* case <-timeout.C: return
CoordTimeout ==
    /\ coordPc = "select"
    /\ timer.state = "fired"
    /\ timer' = [timer EXCEPT !.state = "drained"]
    /\ CoordReturn("timeout")
    /\ UNCHANGED << config, now, ctxErr, links, linksClosed, wpc, wrl,
                    wres, wlinks, late, wstart, closerPc, hereLinks, coordR, uniqueURLs, outCloses,
                    delivered, enqueued, logs, harnessVars, limVars, consumerVars >>

\* mutant: the deadline message is printed whatever ctx.Err() is
DeferCancelAlwaysLog ==
    /\ logs' = Append(logs, MsgDeadline)
    /\ ctxErr' = IF ctxErr = "none" THEN "Canceled" ELSE ctxErr
    /\ coordPc' = "defer2"

\* the deferred func: the deadline message if ctx.Err() is DeadlineExceeded, cancel()
DeferCancel ==
    /\ logs' = IF ctxErr = "DeadlineExceeded" THEN Append(logs, MsgDeadline) ELSE logs
    /\ ctxErr' = IF ctxErr = "none" THEN "Canceled" ELSE ctxErr
    /\ coordPc' = "defer2"

CoordDeferCancel ==
    /\ coordPc = "defer1"
    /\ DeferCancel
    /\ late' = IF ctxErr = "none" THEN Fetching ELSE late
    /\ UNCHANGED << config, now, timer, links, linksClosed, wpc, wrl, wres,
                    wlinks, wstart, closerPc, hereLinks, coordR, uniqueURLs, outCloses,
                    delivered, enqueued, exitPath, harnessVars, limVars, consumerVars >>

\* mutant: the coordinator returns leaving links open
DeferCloseLinksSkipped ==
    /\ linksClosed' = linksClosed
    /\ coordPc' = "defer3"

\* defer close(links)
DeferCloseLinks ==
    /\ linksClosed' = TRUE
    /\ coordPc' = "defer3"

CoordDeferCloseLinks ==
    /\ coordPc = "defer2"
    /\ DeferCloseLinks
    /\ UNCHANGED << config, now, ctxErr, timer, links, wpc, wrl, wres,
                    wlinks, late, wstart, closerPc, hereLinks, coordR, uniqueURLs, outCloses,
                    delivered, enqueued, logs, exitPath, harnessVars, limVars, consumerVars >>

\* mutant: the coordinator returns without closing resultsOutput
DeferCloseOutputSkipped ==
    /\ outCloses' = outCloses
    /\ coordPc' = "done"

\* defer close(resultsOutput)
DeferCloseOutput ==
    /\ outCloses' = outCloses + 1
    /\ coordPc' = "done"

CoordDeferCloseOutput ==
    /\ coordPc = "defer3"
    /\ DeferCloseOutput
    /\ UNCHANGED << config, now, ctxErr, timer, links, linksClosed, wpc, wrl,
                    wres, wlinks, late, wstart, closerPc, hereLinks, coordR, uniqueURLs,
                    delivered, enqueued, logs, exitPath, harnessVars, limVars, consumerVars >>

----------------------------------------------------------------------------
(* The goroutine closing the workers' channels *)

\* mutant: wg.Wait() returns once one worker has returned
CloserCloseResultsEarly ==
    /\ closerPc = "wait"
    /\ \E w \in Workers : wpc[w] = "done"
    /\ closerPc' = "closedResults"
    /\ UNCHANGED << config, now, ctxErr, timer, links, linksClosed, wpc, wrl,
                    wres, wlinks, late, wstart, coordPc, hereLinks, coordR, uniqueURLs, outCloses,
                    delivered, enqueued, logs, exitPath, harnessVars, limVars, consumerVars >>

\* wg.Wait() returns once every worker has returned; close(results)
CloserCloseResults ==
    /\ closerPc = "wait"
    /\ \A w \in Workers : wpc[w] = "done"
    /\ closerPc' = "closedResults"
    /\ UNCHANGED << config, now, ctxErr, timer, links, linksClosed, wpc, wrl,
                    wres, wlinks, late, wstart, coordPc, hereLinks, coordR, uniqueURLs, outCloses,
                    delivered, enqueued, logs, exitPath, harnessVars, limVars, consumerVars >>

\* close(outputLinks)
CloserCloseOutputLinks ==
    /\ closerPc = "closedResults"
    /\ closerPc' = "done"
    /\ UNCHANGED << config, now, ctxErr, timer, links, linksClosed, wpc, wrl,
                    wres, wlinks, late, wstart, coordPc, hereLinks, coordR, uniqueURLs, outCloses,
                    delivered, enqueued, logs, exitPath, harnessVars, limVars, consumerVars >>

----------------------------------------------------------------------------

\* the steps of the goroutines and of the consumer
Steps ==
    \/ \E w \in Workers :
         \/ WorkerCtxDone(w)
         \/ WorkerRecv(w)
         \/ WorkerRecvClosed(w)
         \/ WorkerWaitCancelled(w)
         \/ WorkerWaitExceed(w)
         \/ WorkerWaitReserve(w)
         \/ WorkerSleepCancelled(w)
         \/ WorkerToken(w)
         \/ WorkerFetch(w)
         \/ SendResult(w)
         \/ SendLinks(w)
    \/ Forward
    \/ CoordRange
    \/ CoordLinksFoundClosed
    \/ CoordResultsClosed
    \/ CoordTimeout
    \/ CoordDeferCancel
    \/ CoordDeferCloseLinks
    \/ CoordDeferCloseOutput
    \/ CloserCloseResults
    \/ CloserCloseOutputLinks

\* time left out of account: the deadline and the idle timer can expire at
\* any moment
Next ==
    \/ Deadline
    \/ TimerFire
    \/ Steps

Spec == Init /\ [][Next]_vars

\* a step some goroutine or the consumer can take without waiting for time to
\* pass: a receive or send that has its partner, a select with a ready case,
\* a handler or deferred call under way
Runnable ==
    \/ coordPc \notin {"select", "forward", "done"}
    \/ coordPc = "forward" /\ ~printing
    \/ printing
    \/ coordPc = "select" /\ (timer.state = "fired" \/ closerPc # "wait")
    \/ \E w \in Workers :
         \/ wpc[w] \in {"wait", "sendResult", "sendLinks"}
         \/ wpc[w] = "select" /\ (links # << >> \/ linksClosed \/ ctxDone)
         \/ wpc[w] = "sleep" /\ (ctxDone \/ (ratePeriod > 0 /\ now >= wtok[w]))
    \/ closerPc = "wait" /\ \A w \in Workers : wpc[w] = "done"
    \/ closerPc = "closedResults"

\* something whose time has come: the idle timer, the context's deadline, a
\* rate-limit wait and fetch that have lasted BusyMax ticks
Due ==
    \/ timer.state = "armed" /\ exitPath = "none" /\ now >= timer.expires
    \/ hasDeadline /\ ctxErr = "none" /\ now >= ctxTimeout
    \/ \E w \in Workers :
         \/ ratePeriod = 0 /\ wpc[w] \in {"sleep", "fetch"} /\ now - wstart[w] >= BusyMax
         \/ ratePeriod > 0 /\ wpc[w] = "fetch" /\ now - wtok[w] >= BusyMax

\* a tick passes: nothing is runnable or due, and some goroutine is still there
Tick ==
    /\ ~Runnable
    /\ ~Due
    /\ coordPc # "done" \/ \E w \in Workers : wpc[w] # "done"
    /\ now' = now + 1
    /\ UNCHANGED << config, ctxErr, timer, links, linksClosed, wpc, wrl, wres,
                    wlinks, late, wstart, closerPc, coordPc, hereLinks, coordR,
                    uniqueURLs, outCloses, delivered, enqueued, logs, exitPath,
                    harnessVars, limVars, consumerVars >>

\* time taken into account, goroutines and consumer taking no time but for
\* rateLimit.Wait and getURLer: the deadline expires ctxTimeout after the
\* start, the idle timer DISPATCHERTIMEOUT after it was made or last reset
NextTimed ==
    \/ Tick
    \/ Deadline /\ now >= ctxTimeout
    \/ TimerFire /\ now >= timer.expires
    \/ Steps

SpecTimed == InitTimed /\ [][NextTimed]_vars

\* the configurations crawled with a consumer whose loop body is a step of
\* its own
ConsumerConfigs ==
    [baseURL : {<<"h", "x">>}, ctxTimeout : {0, 1}, goWorkers : 1..NumWorkers,
     site : {"twoLinks"}, linkBufferSize : {LinkBufferSize + 1}, idleWindow : {1},
     ratePeriod : {0}, fetchMin : {0}, slowConsumer : {TRUE}]

InitConsumer == \E c \in ConsumerConfigs : Start(c)

NextConsumer ==
    \/ Next
    \/ ConsumerPrinted

\* the crawl with printResults' loop as its consumer
SpecConsumer == InitConsumer /\ [][NextConsumer]_vars

\* the configurations crawled with a getURLer that takes its time
\* (TestDispatcher's httpMS): fetches that return at once or after BusyMax
\* ticks, a DISPATCHERTIMEOUT shorter and longer than that (case 4:
\* dispatchMS = httpMS - 6), one to NumWorkers workers, every buffer size,
\* with and without a deadline
SlowFetchConfigs ==
    [baseURL : {<<"h", "x">>}, ctxTimeout : {0, 1, BusyMax + 2},
     goWorkers : 1..NumWorkers, site : {"twoLinks"},
     linkBufferSize : 1..(LinkBufferSize + 1), idleWindow : {1, BusyMax + 1},
     ratePeriod : {0}, fetchMin : {0, BusyMax}, slowConsumer : {FALSE}]

InitSlowFetch == \E c \in SlowFetchConfigs : Start(c)

\* the crawl with the duration of the fetches modelled
SpecSlowFetch == InitSlowFetch /\ [][NextTimed]_vars

\* the configurations crawled on the site "fresh" (TestDispatcher case 8),
\* every fetch taking BusyMax ticks: without a deadline and with a
\* DISPATCHERTIMEOUT longer than a fetch, one to NumWorkers workers and every
\* buffer size (NumWorkers workers with a buffer of one link); with a deadline
\* or a DISPATCHERTIMEOUT shorter than a fetch, one worker and a buffer of one
\* link
FreshConfigs ==
    { c \in [baseURL : {<<"h", "x">>}, ctxTimeout : {0, 1, BusyMax + 2},
             goWorkers : 1..NumWorkers, site : {"fresh"},
             linkBufferSize : 1..(LinkBufferSize + 1), idleWindow : {1, BusyMax + 1},
             ratePeriod : {0}, fetchMin : {BusyMax}, slowConsumer : {FALSE}] :
        /\ (c.ctxTimeout > 0 \/ c.idleWindow = 1) => (c.goWorkers = 1 /\ c.linkBufferSize = 1)
        /\ c.goWorkers = NumWorkers => c.linkBufferSize = 1 }

InitFresh == \E c \in FreshConfigs : Start(c)

\* the crawl of the site "fresh", every goroutine that can take a step
\* taking it in the end
SpecFresh == InitFresh /\ [][NextTimed]_vars /\ WF_vars(NextTimed)

\* the crawl with the rate limiter's timing modelled
SpecRate == InitRate /\ [][NextTimed]_vars

\* the crawl of the site with failing pages, time left out of account
SpecErrors == InitErrors /\ [][Next]_vars

\* every goroutine that can run does run, timers that are due fire, getURLer
\* returns, and the consumer ranges over the channel Dispatcher returned
FairSpec == Spec /\ WF_vars(Next)

\* as FairSpec for a crawl with a deadline, but the idle timer need never fire: events may keep arriving
\* within DISPATCHERTIMEOUT of each other for as long as the crawl lasts
DeadlineSpec == InitDeadline /\ [][Next]_vars /\ WF_vars(Deadline \/ Steps)

----------------------------------------------------------------------------
(* Properties *)

Count(q, m) == Cardinality({ i \in DOMAIN q : q[i] = m })

Returned == exitPath # "none"

\* C1: on every return path of the coordinator resultsOutput is closed exactly
\* once (never twice, and once when the coordinator has finished), and once the
\* coordinator has taken a return no further Result is delivered to the consumer.
C1_ClosedOnceNoLateResult ==
    /\ [](outCloses <= 1 /\ (coordPc = "done" => outCloses = 1 /\ Returned))
    /\ [][Returned => delivered' = delivered]_vars

\* a finished crawl with the output closed while a worker still holds a Result
C1_Witness ==
    /\ coordPc = "done"
    /\ outCloses = 1
    /\ \E w \in Workers : wpc[w] = "sendResult"

\* the termination reasons whose message has been printed; the code has no
\* message for an idle end
LoggedReasons ==
    { m \in {MsgNoSpace, MsgTooMany, MsgDeadline} : Count(logs, m) > 0 }

\* C2 as claimed: a finished crawl has logged exactly one termination reason.
C2_ExactlyOneReasonLogged ==
    coordPc = "done" => Cardinality(LoggedReasons) = 1

\* C2 as amended: the coordinator leaves by exactly one return path; the buffer
\* message and the 429 message are each printed once exactly when theirs is the
\* path taken, the deadline message is printed once exactly when ctx.Err() is
\* DeadlineExceeded as the coordinator returns (possibly next to one of the other
\* two), and an idle end prints nothing.
C2_ReasonsLogged ==
    /\ Count(logs, MsgNoSpace) = (IF exitPath = "bufferFull" THEN 1 ELSE 0)
    /\ Count(logs, MsgTooMany) = (IF exitPath = "tooManyRequests" THEN 1 ELSE 0)
    /\ coordPc \in {"defer2", "defer3", "done"} =>
          /\ exitPath \in {"bufferFull", "tooManyRequests", "timeout",
                           "resultsClosed", "linksFoundClosed"}
          /\ Count(logs, MsgDeadline) = (IF ctxErr = "DeadlineExceeded" THEN 1 ELSE 0)
          /\ (exitPath = "timeout" /\ ctxErr # "DeadlineExceeded" => logs = << >>)
    /\ coordPc \notin {"defer2", "defer3", "done"} => Count(logs, MsgDeadline) = 0

\* a crawl that has logged two reasons: the buffer was full, the deadline had passed
C2_Witness ==
    /\ coordPc = "done"
    /\ logs = << MsgNoSpace, MsgDeadline >>

\* C3: no two refLinks ever sent on links (the seed included) have the same
\* normalized URL.
C3_EnqueuedAtMostOnce ==
    \A i, j \in DOMAIN enqueued :
        i # j => Normalize(enqueued[i].url) # Normalize(enqueued[j].url)

\* a page was enqueued under its spelling with a slash, and the rest of that
\* page's links, its spelling without the slash among them, have been ranged over
C3_Witness ==
    /\ \E i \in DOMAIN enqueued : enqueued[i].url = <<"h", "x", "/", "a", "/">>
    /\ Len(enqueued) = 3
    /\ coordPc = "select"

\* the coordinator's step that ranges over the next of hereLinks
RangeStep == coordPc = "range" /\ << coordPc, hereLinks >>' # << coordPc, hereLinks >>

\* C4: links never holds more than LinkBufferSize entries; the first send on
\* links that finds no room makes the coordinator return on the buffer-full path
\* without enqueuing; after that nothing more is enqueued or delivered; and while
\* the coordinator has not returned on that path every admitted URL was enqueued.
C4_BufferFullStops ==
    /\ [](Len(links) <= linkBufferSize)
    /\ [][(/\ RangeStep
           /\ follow(uniqueURLs, baseURL, Head(hereLinks).url).ok
           /\ ~LinksHasRoom)
          => (exitPath' = "bufferFull" /\ coordPc' = "defer1" /\ enqueued' = enqueued)]_vars
    /\ [][exitPath = "bufferFull" => (enqueued' = enqueued /\ delivered' = delivered)]_vars
    /\ [](exitPath # "bufferFull" =>
             \A u \in uniqueURLs \ {baseURL} :
                 \E i \in DOMAIN enqueued : Normalize(enqueued[i].url) = u)

\* a crawl stopped by the full buffer: the link that found no room is admitted
\* but not enqueued
C4_Witness ==
    /\ exitPath = "bufferFull"
    /\ coordPc = "done"
    /\ Cardinality(uniqueURLs) = Len(enqueued) + 1

\* C5: for any sequence of calls of the closure, it returns true at most once
\* per normalized URL (the URL with one trailing slash stripped).
C5_AdmitAtMostOnce ==
    \A n \in NormURLs : admitted[n] <= 1

\* the spelling with a slash is refused once the page has been admitted
C5_Witness ==
    /\ lastU = <<"h", "x", "/", "a", "/">>
    /\ lastOK = FALSE
    /\ admitted[<<"h", "x", "/", "a">>] = 1

\* C6 as claimed: the closure returns true only for a URL located under the base
\* URL whose normalized form ends with none of the suffixes to skip.
C6_AdmitsOnlyInScope ==
    lastOK => (HasPrefix(lastU, baseURL) /\ ~SkipSuffix(Normalize(lastU)))

C8_DeliveredAtMostEnqueued ==
    Len(delivered) <= Len(enqueued)

\* every page was enqueued and its Result delivered
C8_Witness ==
    /\ Len(enqueued) = 3
    /\ Len(delivered) = 3

\* C9 as claimed: a crawl that ends on the idle timer, the deadline not having
\* passed, has delivered as many Results as refLinks were enqueued.
C9_IdleDeliversAll ==
    (exitPath = "timeout" /\ ctxErr # "DeadlineExceeded")
        => Len(delivered) = Len(enqueued)

Quiescent == links = << >> /\ \A w \in Workers : wpc[w] = "select"

\* C9 as amended: if the coordinator returns on the idle timer while links is
\* empty and every worker waits for its next entry, as many Results have been
\* delivered as refLinks were enqueued.
C9_IdleWhenQuiescent ==
    [][(exitPath = "none" /\ exitPath' = "timeout" /\ Quiescent)
       => Len(delivered') = Len(enqueued')]_vars

\* an idle end of a drained crawl of three pages
C9_Witness ==
    /\ exitPath = "timeout"
    /\ Quiescent
    /\ Len(delivered) = 3

\* the step in which the coordinator receives a 429 Result from a worker
Recv429Step ==
    \E w \in Workers :
        /\ wpc[w] = "sendResult"
        /\ wpc'[w] = "sendLinks"
        /\ wres[w].status = StatusTooManyRequests

\* C10: the coordinator returns on the 429 path in the very step it receives a
\* Result with status 429; no delivered Result has status 429; and nothing is
\* delivered once the coordinator has returned on that path.
C10_TooManyRequestsStops ==
    /\ [](\A i \in DOMAIN delivered : delivered[i].status # StatusTooManyRequests)
    /\ [][Recv429Step =>
            (exitPath' = "tooManyRequests" /\ coordPc' = "defer1" /\ delivered' = delivered)]_vars
    /\ [][exitPath = "tooManyRequests" => delivered' = delivered]_vars

\* a crawl stopped by a 429 after a Result was delivered, another worker still
\* holding a Result
C10_Witness ==
    /\ exitPath = "tooManyRequests"
    /\ coordPc = "done"
    /\ Len(delivered) >= 1
    /\ \E w \in Workers : wpc[w] = "sendResult"

----------------------------------------------------------------------------
\* C18: once the coordinator goroutine has returned, whatever made it return,
\* ctx is cancelled, links is closed and resultsOutput is closed; the three
\* deferred calls ran in the order cancel, close(links), close(resultsOutput).
C18_ReturnCancelsAndCloses ==
    /\ coordPc = "done" =>
          /\ exitPath # "none"
          /\ ctxDone
          /\ linksClosed
          /\ outCloses = 1
    /\ outCloses = 1 => linksClosed
    /\ linksClosed => ctxDone

\* the coordinator has returned on the idle timer and its defers have run
C18_Witness ==
    /\ coordPc = "done"
    /\ exitPath = "timeout"
    /\ ctxErr = "Canceled"
    /\ linksClosed
    /\ outCloses = 1

----------------------------------------------------------------------------
\* C15: with ctxTimeout zero or negative the context never reports
\* DeadlineExceeded and the deadline message is never printed; ctx is done
\* only after the coordinator has returned on a full buffer, a 429 or the idle
\* timer and its deferred cancel() has run.
C15_NoDeadlineWhenNotPositive ==
    ctxTimeout <= 0 =>
        /\ ctxErr # "DeadlineExceeded"
        /\ Count(logs, MsgDeadline) = 0
        /\ exitPath \in {"none", "bufferFull", "tooManyRequests", "timeout"}
        /\ ctxDone => /\ ctxErr = "Canceled"
                      /\ coordPc \in {"defer2", "defer3", "done"}

\* a crawl called with a negative ctxTimeout has ended on a full buffer
C15_Witness ==
    /\ ctxTimeout < 0
    /\ coordPc = "done"
    /\ exitPath = "bufferFull"
    /\ ctxErr = "Canceled"

----------------------------------------------------------------------------
\* C19: under fair scheduling, with or without a deadline, resultsOutput is
\* eventually closed and stays closed, so that a consumer ranging over it
\* leaves its loop.
C19_OutputEventuallyClosed == <>[](coordPc = "done" /\ outCloses = 1)

\* a crawl without a deadline has delivered results and closed resultsOutput
C19_Witness ==
    /\ ~hasDeadline
    /\ Len(delivered) >= 2
    /\ coordPc = "done"
    /\ outCloses = 1

----------------------------------------------------------------------------
\* C20: under fair scheduling, once resultsOutput is closed every worker
\* goroutine returns, whatever it was blocked on, and the goroutine closing
\* results and outputLinks finishes.
AllGoroutinesDone ==
    /\ \A w \in Workers : wpc[w] = "done"
    /\ closerPc = "done"

C20_NoGoroutineLeak == (outCloses = 1) ~> [] AllGoroutinesDone

\* two workers and the closing goroutine have finished after a crawl that
\* ended on a 429
C20_Witness ==
    /\ goWorkers = 2
    /\ exitPath = "tooManyRequests"
    /\ outCloses = 1
    /\ AllGoroutinesDone

----------------------------------------------------------------------------
\* C16: a context made with a deadline expires whatever the crawl does, an
\* expired context stays expired (no event resets or extends it), and once it
\* has expired resultsOutput is eventually closed even if the idle timer
\* never fires.
C16_DeadlineForcesClose ==
    /\ [][ctxErr = "DeadlineExceeded" => ctxErr' = "DeadlineExceeded"]_vars
    /\ (ctxErr = "DeadlineExceeded") ~> (outCloses = 1)
    /\ <>(ctxDone /\ outCloses = 1)

\* the deadline expired with the idle timer still running, the workers left,
\* and the coordinator returned on a closed channel
C16_Witness ==
    /\ ctxErr = "DeadlineExceeded"
    /\ timer.state = "armed"
    /\ exitPath \in {"resultsClosed", "linksFoundClosed"}
    /\ Len(delivered) >= 1
    /\ outCloses = 1

----------------------------------------------------------------------------
\* C11 (as claimed): a worker whose getURLer call was running when ctx was
\* cancelled does not send that call's Result on results.
SendsLateResult(w) ==
    /\ w \in late
    /\ wpc[w] = "sendResult"
    /\ wpc'[w] = "sendLinks"

C11_LateResultDiscarded == [][\A w \in Workers : ~SendsLateResult(w)]_vars

----------------------------------------------------------------------------
\* the coordinator receives a worker's links / a worker's Result
LinksEventStep == \E w \in Workers : wpc[w] = "sendLinks" /\ wpc'[w] = "select"

ResultEventStep == \E w \in Workers : wpc[w] = "sendResult" /\ wpc'[w] = "sendLinks"

IdleReturnStep == exitPath = "none" /\ exitPath' = "timeout"

\* C14 (as claimed): the idle timer is reset, so running anew, after every
\* discovered-links event and after every Result event.
C14_EveryEventResetsTimer ==
    [][(LinksEventStep \/ ResultEventStep) => timer' = NewTimer(idleWindow, now)]_vars

\* C14 as amended: a Result event resets the timer, an expired one included;
\* a discovered-links event leaves the timer as it was, running or expired;
\* and the coordinator returns on the idle path only by receiving the expiry
\* of a timer that ran DISPATCHERTIMEOUT without being reset.
C14_ResultEventsResetTimer ==
    [][/\ ResultEventStep => timer' = NewTimer(idleWindow, now)
       /\ LinksEventStep => timer' = timer
       /\ IdleReturnStep => (timer.state = "fired" /\ timer' = [timer EXCEPT !.state = "drained"])]_vars

\* the timer expired while a worker was waiting to hand over its links; the
\* coordinator took the links, and the expiry is still pending
C14_Witness ==
    /\ timer.state = "fired"
    /\ coordPc = "range"
    /\ exitPath = "none"
    /\ Len(delivered) >= 1

----------------------------------------------------------------------------
\* TestDispatcher case 1: one worker, room for one refLink in links, every page
\* linking to the same two pages
ScenarioC == goWorkers = 1 /\ linkBufferSize = 1 /\ site = "twoLinks"

----------------------------------------------------------------------------
\* the pages a site's pages link to
SiteLinks(s) == UNION { { pg.links[i] : i \in 1..Len(pg.links) } : pg \in Pages(s) }

DeliveredURLs == { delivered[i].url : i \in 1..Len(delivered) }

\* a site without 429s, no deadline, DISPATCHERTIMEOUT longer than a
\* rate-limit wait plus fetch, and room in links for every page linked to
ScenarioAB ==
    /\ site \in TimedSites
    /\ ~hasDeadline
    /\ idleWindow > BusyMax
    /\ linkBufferSize >= Cardinality(SiteLinks(site))

\* C12: in such a crawl, goroutines and consumer taking no time but for the
\* rate-limit wait and the fetch, nothing is logged, the coordinator returns
\* only on the idle timer, no page's Result is delivered twice, and when the
\* coordinator has returned exactly one Result for the base URL and one for
\* each page linked to have been delivered (1 for the site without links, 3
\* for the site of the two links), whatever the number of workers.
C12_FiniteSiteFullyDelivered ==
    ScenarioAB =>
        /\ logs = << >>
        /\ exitPath \in {"none", "timeout"}
        /\ Cardinality(DeliveredURLs) = Len(delivered)
        /\ \A i \in 1..Len(delivered) : delivered[i].status = StatusOK
        /\ coordPc = "done" =>
              /\ DeliveredURLs = {baseURL} \cup SiteLinks(site)
              /\ Len(delivered) = 1 + Cardinality(SiteLinks(site))

\* TestDispatcher case 0 has ended: one worker, room for two refLinks, both
\* links followed, three Results delivered, return on the idle timer
C12_Witness ==
    /\ ScenarioAB
    /\ site = "twoLinks"
    /\ goWorkers = 1
    /\ linkBufferSize = 2
    /\ coordPc = "done"
    /\ exitPath = "timeout"
    /\ Len(delivered) = 3
    /\ now > idleWindow

----------------------------------------------------------------------------
\* DISPATCHERTIMEOUT at least the deadline
IdleNotBelowDeadline == hasDeadline /\ idleWindow >= ctxTimeout

\* C17 (as claimed): with DISPATCHERTIMEOUT at least the deadline no crawl
\* ends with the deadline message.
C17_DeadlineNeverReported == IdleNotBelowDeadline => Count(logs, MsgDeadline) = 0

\* C17 as amended: with DISPATCHERTIMEOUT longer than the deadline the
\* coordinator still returns cancelling and closing both channels, and the
\* deadline message is printed whenever the deadline has expired by then; a
\* return on the idle timer is made only with the deadline expired, so that
\* it always prints the deadline message: what cannot happen is the silent
\* end on the idle timer.
C17_IdleEndReportsDeadline ==
    (hasDeadline /\ idleWindow > ctxTimeout) =>
        /\ timer.state = "fired" => ctxErr = "DeadlineExceeded"
        /\ coordPc = "done" =>
              /\ ctxDone /\ linksClosed /\ outCloses = 1
              /\ Count(logs, MsgDeadline) = 1 <=> ctxErr = "DeadlineExceeded"
              /\ exitPath = "timeout" =>
                    /\ now >= idleWindow
                    /\ Count(logs, MsgDeadline) = 1

\* a crawl with DISPATCHERTIMEOUT longer than the deadline has ended on the
\* idle timer, after the deadline, with the deadline message
C17_Witness ==
    /\ hasDeadline
    /\ idleWindow > ctxTimeout
    /\ coordPc = "done"
    /\ exitPath = "timeout"
    /\ logs = << MsgDeadline >>

----------------------------------------------------------------------------
\* a Result carrying an error other than a 429
ErrResult(r) == r.err # "nil" /\ r.status # StatusTooManyRequests

\* C21: a Result carrying an error (StatusNotOk other than 429, NonHTMLPageType,
\* a transport or parse error) received by the coordinator is forwarded to
\* resultsOutput as it is, without a return of the coordinator or a cancel; the
\* worker that sent it goes on to send its links and then back to its select
\* on inputURLs; a worker returns only when ctx is done or rateLimit.Wait
\* fails.
C21_ErrorResultsForwarded ==
    /\ [][\A w \in Workers :
            (wpc[w] = "sendResult" /\ wpc'[w] = "sendLinks" /\ ErrResult(wres[w])) =>
                /\ coordPc' = "forward"
                /\ coordR' = wres[w]
                /\ exitPath' = "none"
                /\ ctxErr' = ctxErr
                /\ logs' = logs]_vars
    /\ [][(coordPc = "forward" /\ coordPc' # "forward") =>
            delivered' = Append(delivered, coordR)]_vars
    /\ [][\A w \in Workers :
            /\ (wpc[w] = "sendLinks" /\ wpc'[w] \notin {"sendLinks", "done"}) =>
                   wpc'[w] = "select"
            /\ (wpc[w] # "done" /\ wpc'[w] = "done") =>
                   (ctxDone \/ (hasDeadline /\ wpc[w] = "wait"))]_vars

\* the single worker fetched a page that failed, its Result was delivered, and
\* the worker went on to fetch the next page, whose Result was delivered too
C21_Witness ==
    /\ goWorkers = 1
    /\ Len(delivered) = 3
    /\ ErrResult(delivered[2])
    /\ delivered[2].err = "transport"
    /\ exitPath = "none"

----------------------------------------------------------------------------
\* the refLinks the workers hold: received from links and not yet done with
HeldLinks == { w \in Workers : wpc[w] \in {"wait", "sleep", "fetch", "sendResult", "sendLinks"}
                                /\ wrl[w] # ZeroRefLink }

\* C22: getURLer is called at most once for any URL in a crawl, whatever it
\* returned; a refLink received by a worker is no longer in links and is held
\* by no other worker; and no two Results delivered on resultsOutput have the
\* same URL.
C22_NoURLFetchedTwice ==
    /\ \A u \in DOMAIN fetched : fetched[u] <= 1
    /\ \A w \in HeldLinks :
          /\ \A i \in DOMAIN links : links[i].url # wrl[w].url
          /\ \A v \in HeldLinks \ {w} : wrl[v].url # wrl[w].url
    /\ \A i, j \in DOMAIN delivered : i # j => delivered[i].url # delivered[j].url

\* a page answered 403, its Result was delivered once, the page was offered
\* again by its own spelling without the slash and not fetched again, and the
\* crawl has ended
C22_Witness ==
    /\ coordPc = "done"
    /\ exitPath = "timeout"
    /\ Len(delivered) = 2
    /\ delivered[2].url = <<"h", "x", "/", "a", "/">>
    /\ delivered[2].status = StatusForbidden
    /\ fetched[<<"h", "x", "/", "a", "/">>] = 1
    /\ <<"h", "x", "/", "a">> \in uniqueURLs

----------------------------------------------------------------------------
\* C23: the one limiter paces the calls of getURLer of all the workers
\* together: any two calls are at least as many token periods apart as there
\* are calls between them, so that a span of T ticks holds at most
\* T / ratePeriod + 1 of them (R * T + 1 with R = 1 / ratePeriod), whatever
\* the number of workers; workers waiting for a token have tokens for
\* different periods; and a worker calls getURLer only out of a
\* rateLimit.Wait that has let it go, not before the time of its token.
C23_AggregateRateBounded ==
    /\ [](\A i, j \in DOMAIN fetchStarts :
             i < j => fetchStarts[j] - fetchStarts[i] >= (j - i) * ratePeriod)
    /\ [](\A v, w \in Workers :
             (v # w /\ wpc[v] = "sleep" /\ wpc[w] = "sleep" /\ wtok[v] <= wtok[w]) =>
                 wtok[w] - wtok[v] >= ratePeriod)
    /\ [][\A w \in Workers :
            (wpc[w] # "fetch" /\ wpc'[w] = "fetch") =>
                /\ wpc[w] = "sleep"
                /\ now >= wtok[w]
                /\ Len(fetchStarts') = Len(fetchStarts) + 1]_vars

\* two workers asked for a token at the same time for the base page's two
\* links, and their calls of getURLer were made one token period apart
C23_Witness ==
    /\ goWorkers = 2
    /\ ratePeriod = 2
    /\ Len(fetchStarts) = 3
    /\ fetchStarts[3] - fetchStarts[2] = ratePeriod
    /\ wstart[1] = wstart[2]
    /\ \A w \in Workers : wpc[w] = "fetch"

----------------------------------------------------------------------------
\* the step in which worker w calls getURLer
FetchStartStep(w) == wpc[w] # "fetch" /\ wpc'[w] = "fetch"

\* C24 (as claimed): no call of getURLer is made once ctx is done.
C24_NoFetchAfterCancel == [][\A w \in Workers : FetchStartStep(w) => ~ctxDone]_vars

\* C24 as amended: a rateLimit.Wait entered with ctx done returns an error;
\* a worker whose rateLimit.Wait returns an error returns without calling
\* getURLer and without sending anything, and the refLink it had received is
\* dropped, not put back on links. (A worker already waiting for its token
\* when ctx is cancelled may still be let go and call getURLer.)
C24_CancelledWaitExitsSilently ==
    [][\A w \in Workers :
         /\ (wpc[w] = "wait" /\ ctxDone) => wpc'[w] \in {"wait", "done"}
         /\ (wpc[w] \in {"wait", "sleep"} /\ wpc'[w] = "done") =>
                /\ fetched' = fetched
                /\ wrl'[w] = ZeroRefLink
                /\ links' = links
                /\ << coordPc, coordR, hereLinks, delivered, enqueued >>' =
                       << coordPc, coordR, hereLinks, delivered, enqueued >>]_vars

\* every worker has returned and a refLink that was enqueued and received by
\* a worker was never fetched
C24_Witness ==
    /\ \A w \in Workers : wpc[w] = "done"
    /\ links = << >>
    /\ Len(enqueued) >= 2
    /\ \E i \in DOMAIN enqueued : enqueued[i].url \notin DOMAIN fetched

----------------------------------------------------------------------------
\* C25: the dispatch NewDispatch returns has GOWORKERS workers, a buffer of
\* LINKBUFFERSIZE and a rate of HTTPRATESEC where the value given was less
\* than 1 (zero or negative) and the value given otherwise; base URL, search
\* terms, dispatcher timeout, global timeout and client are those given.
C25_NewDispatchDefaults ==
    callIn # << >> =>
        /\ callOut.workers = (IF callIn.workers >= 1 THEN callIn.workers ELSE 8)
        /\ callOut.linkBufferSize =
              (IF callIn.linkBufferSize >= 1 THEN callIn.linkBufferSize ELSE 2500)
        /\ callOut.httpRateSec =
              (IF callIn.httpRateSec >= 1 THEN callIn.httpRateSec ELSE 10)
        /\ callOut.baseURL = callIn.baseURL
        /\ callOut.searchTerms = callIn.searchTerms
        /\ callOut.dispatcherTimeout = callIn.dispatcherTimeout
        /\ callOut.ctxTimeout = callIn.timeout
        /\ callOut.client = callIn.client

\* a call with a negative number of workers, a zero buffer size and a rate
\* given has returned
C25_Witness ==
    /\ callIn # << >>
    /\ callIn.workers = -1
    /\ callIn.linkBufferSize = 0
    /\ callIn.httpRateSec = 2
    /\ callIn.timeout = -1
    /\ callOut.workers = GOWORKERS
    /\ callOut.linkBufferSize = LINKBUFFERSIZE
    /\ callOut.httpRateSec = 2

----------------------------------------------------------------------------
\* the lines of a body: the runs of bytes ended by a newline or by the end of
\* the body, by the index of their first byte
LineStarts(body) ==
    { i \in 1..Len(body) : i = 1 \/ body[i - 1] = NewLine }

LineNumber(body, i) == Cardinality({ j \in LineStarts(body) : j <= i })

LineText(body, i) == SubSeq(body, i, NextNewLine(body, i) - 1)

SameLetter(c, d) == c = d \/ {c, d} = {"a", "A"}

\* the line holds the term, letter case set aside
HoldsTerm(text, st) ==
    \E i \in 0..(Len(text) - Len(st)) : \A k \in 1..Len(st) : SameLetter(text[i + k], st[k])

\* what the claim lets getMatches return for a body and a list of terms
MatchesAsClaimed(body, searchTerms, out) ==
    /\ \A i \in LineStarts(body) : \A k \in DOMAIN searchTerms :
          Cardinality({ m \in DOMAIN out :
                          out[m] = [line |-> LineNumber(body, i), match |-> searchTerms[k]] })
            = (IF HoldsTerm(LineText(body, i), searchTerms[k])
               THEN Cardinality({ n \in DOMAIN searchTerms : searchTerms[n] = searchTerms[k] })
               ELSE 0)
    /\ \A m \in DOMAIN out :
          /\ \E k \in DOMAIN searchTerms : out[m].match = searchTerms[k]
          /\ \E i \in LineStarts(body) : out[m].line = LineNumber(body, i)
    /\ \A m, n \in DOMAIN out : m < n => out[m].line <= out[n].line
    /\ searchTerms = << >> => out = << >>

CalledGetMatches == callIn # << >> /\ "body" \in DOMAIN callIn

\* C26 (as claimed): for any body and list of terms getMatches returns one
\* SearchMatch for every line and entry of the list such that the line holds
\* the term, letter case set aside, and no other, with line numbers from 1 in
\* ascending order; nothing for an empty list.
C26_OneMatchPerLineAndTerm ==
    CalledGetMatches => MatchesAsClaimed(callIn.body, callIn.searchTerms, callOut)

\* the same for the bodies all of whose lines fit the scanner's buffer
C26_ShortLinesMatched ==
    (CalledGetMatches /\ \A i \in DOMAIN callIn.body : callIn.body[i] # "L")
        => MatchesAsClaimed(callIn.body, callIn.searchTerms, callOut)

----------------------------------------------------------------------------
CalledGet == callIn # << >> /\ "resp" \in DOMAIN callIn

\* get's ways of failing for a response
GetFails(resp) ==
    \/ resp.transportErr
    \/ resp.status # 200
    \/ ~Contains(resp.contentType, <<"text/html">>)
    \/ resp.readErr
    \/ resp.getLinks.err # "nil"

\* C27: the Result get returns has the url and the referrer get was given,
\* whatever happened; when the transport failed, the status was not 200, the
\* page was not HTML, the body could not be read or the links could not be
\* parsed, the Result carries an error and the list of links returned is
\* empty; otherwise the Result carries no error.
C27_GetKeepsURLAndNoLinksOnError ==
    CalledGet =>
        /\ callOut.result.url = callIn.url
        /\ callOut.result.referrer = callIn.referrer
        /\ GetFails(callIn.resp) <=> callOut.result.err # "nil"
        /\ callOut.result.err # "nil" => callOut.links = << >>

\* a call for a page that is served as JSON although it parses into links
\* has returned NonHTMLPageType and no links
C27_Witness ==
    /\ CalledGet
    /\ callIn.url = <<"h", "x", "/", "a">>
    /\ callIn.resp.status = 200
    /\ ~callIn.resp.transportErr
    /\ callIn.resp.contentType = <<"application/json">>
    /\ callIn.resp.getLinks.links = TwoLinks
    /\ callOut.result.err = "NonHTMLPageType"
    /\ callOut.result.url = <<"h", "x", "/", "a">>
    /\ callOut.links = << >>

----------------------------------------------------------------------------
\* C28: a worker sends the links of a page only after it has sent the page's
\* Result, and by then the coordinator has forwarded that Result; between the
\* return of getURLer and the sending of the links the worker does nothing
\* but these two sends (or returns on ctx.Done()), with the Result and the
\* links it got from getURLer; and the refLinks sent are the page's links in
\* their order, each with the URL of the page just fetched as its referrer.
C28_ResultThenTaggedLinks ==
    [][\A w \in Workers :
         /\ (wpc[w] = "fetch" /\ wpc'[w] # "fetch") =>
                (wpc'[w] = "sendResult" /\ wres'[w].url = wrl[w].url)
         /\ (wpc[w] = "sendResult" /\ wpc'[w] # "sendResult") =>
                /\ wpc'[w] \in {"sendLinks", "done"}
                /\ wpc'[w] = "sendLinks" =>
                       (wres'[w] = wres[w] /\ wlinks'[w] = wlinks[w] /\ hereLinks' = hereLinks)
         /\ (wpc[w] = "sendLinks" /\ wpc'[w] # "sendLinks") =>
                /\ wpc'[w] \in {"select", "done"}
                /\ wpc'[w] = "select" =>
                       /\ \E i \in DOMAIN delivered : delivered[i] = wres[w]
                       /\ delivered' = delivered
                       /\ Len(hereLinks') = Len(wlinks[w])
                       /\ \A k \in DOMAIN hereLinks' :
                             /\ hereLinks'[k].url = wlinks[w][k]
                             /\ hereLinks'[k].referrer = wrl[w].url
         /\ (wpc[w] # "sendLinks" /\ wpc'[w] = "sendLinks") => wpc[w] = "sendResult"]_vars

\* the coordinator ranges over the links of a page other than the base page,
\* tagged with that page's URL, and that page's Result has been delivered
C28_Witness ==
    /\ coordPc = "range"
    /\ Len(hereLinks) >= 2
    /\ hereLinks[1].referrer = <<"h", "x", "/", "a">>
    /\ \E i \in DOMAIN delivered : delivered[i].url = <<"h", "x", "/", "a">>

----------------------------------------------------------------------------
\* the coordinator is in the body of a case of its select: ranging over
\* hereLinks, or at resultsOutput <- r
CoordHandling == coordPc \in {"range", "forward"}

\* the next statement of the case the coordinator is in
CoordHandlerStep ==
    \/ CoordRange
    \/ Forward

\* C29: the coordinator waits only in its select: whenever it is handling an
\* event (ranging over the links found and enqueuing them, or forwarding a
\* Result, the idle timer reset), its next statement can be run at once.
C29_CoordinatorNeverBlocks == CoordHandling => ENABLED CoordHandlerStep

\* the coordinator's enqueuing never waits: while it ranges over hereLinks
\* its next statement can be run at once, whatever links holds
C29_EnqueueNeverBlocks == coordPc = "range" => ENABLED CoordRange

\* the coordinator waits at resultsOutput <- r while the consumer is in the
\* body of its loop
C29_BlockedOnConsumer == coordPc = "forward" /\ printing

----------------------------------------------------------------------------
\* C30: goroutines and consumer taking no time but for rateLimit.Wait and
\* getURLer, when DISPATCHERTIMEOUT is shorter than the time a fetch takes:
\* no Result is ever delivered; once the clock has passed DISPATCHERTIMEOUT
\* the coordinator has returned on its timeout case and resultsOutput has
\* been closed (once); and a worker's Result, when its fetch returns, is
\* never received: the worker leaves its guarded send on ctx.Done().
C30_ShortIdleWindowNoResults ==
    /\ [](fetchMin > idleWindow =>
            /\ delivered = << >>
            /\ coordPc # "forward"
            /\ now > idleWindow =>
                  (coordPc = "done" /\ exitPath = "timeout" /\ outCloses = 1))
    /\ [][fetchMin > idleWindow =>
            \A w \in Workers :
               (wpc[w] = "sendResult" /\ wpc'[w] # "sendResult") => wpc'[w] = "done"]_vars

\* a fetch returns its Result after the coordinator has returned on its
\* timeout case, with more than one worker
C30_Witness ==
    /\ fetchMin > idleWindow
    /\ goWorkers > 1
    /\ coordPc = "done"
    /\ exitPath = "timeout"
    /\ outCloses = 1
    /\ \E w \in Workers : wpc[w] = "sendResult" /\ wres[w].status = StatusOK

----------------------------------------------------------------------------
\* a crawl of the site "fresh" without a deadline, DISPATCHERTIMEOUT longer
\* than a rate-limit wait and fetch
FreshCrawl == site = "fresh" /\ ~hasDeadline /\ idleWindow > BusyMax

\* the most Results such a crawl delivers
MaxFreshResults == linkBufferSize + 2 * goWorkers - 1

----------------------------------------------------------------------------
\* C32: followURLs' map changes only in an iteration of the coordinator's
\* loop over hereLinks, a step no worker takes part in, and then by the one
\* normalized link of that iteration being added; no step takes a URL out of
\* the map.
C32_MapOnlyGrowsInCoordinator ==
    [][/\ uniqueURLs \subseteq uniqueURLs'
       /\ uniqueURLs' # uniqueURLs =>
             /\ coordPc = "range"
             /\ hereLinks # << >>
             /\ uniqueURLs' = uniqueURLs \cup {Normalize(Head(hereLinks).url)}
             /\ wpc' = wpc
             /\ wrl' = wrl
             /\ wres' = wres
             /\ wlinks' = wlinks]_vars

\* the map has grown by two URLs while a worker is fetching
C32_Witness ==
    /\ Cardinality(uniqueURLs) >= 3
    /\ followURLsInit(baseURL) \subseteq uniqueURLs
    /\ \E w \in Workers : wpc[w] = "fetch"

----------------------------------------------------------------------------
\* get was called and the server answered
GotResponse == CalledGet /\ ~callIn.resp.transportErr

\* a status of the 2xx class
Is2xx(status) == status \in 200..299

IsHTML(resp) == Contains(resp.contentType, <<"text/html">>)

\* C33 as stated: when the server answers, the Result's error is StatusNotOk
\* exactly when the status is not a 2xx one, the Result then carries the
\* status, and a response that is neither 2xx nor HTML is StatusNotOk.
C33_StatusNotOkIffNon2xx ==
    GotResponse =>
        /\ callOut.result.err = "StatusNotOk" <=> ~Is2xx(callIn.resp.status)
        /\ callOut.result.err = "StatusNotOk" => callOut.result.status = callIn.resp.status
        /\ (~Is2xx(callIn.resp.status) /\ ~IsHTML(callIn.resp)) =>
              callOut.result.err = "StatusNotOk"

\* C33 amended: when the server answers, the Result's error is StatusNotOk
\* exactly when the status is not 200 (a 204 included), the Result then
\* carries the status, and a response that is neither 200 nor HTML is
\* StatusNotOk, not NonHTMLPageType.
C33_StatusNotOkIffNot200 ==
    GotResponse =>
        /\ callOut.result.err = "StatusNotOk" <=> callIn.resp.status # StatusOK
        /\ callOut.result.err = "StatusNotOk" => callOut.result.status = callIn.resp.status
        /\ (callIn.resp.status # StatusOK /\ ~IsHTML(callIn.resp)) =>
              callOut.result.err = "StatusNotOk"

\* a 403 that is not HTML has come back as StatusNotOk with its status
C33_Witness ==
    /\ GotResponse
    /\ callIn.resp.status = StatusForbidden
    /\ ~IsHTML(callIn.resp)
    /\ callOut.result.err = "StatusNotOk"
    /\ callOut.result.status = StatusForbidden

----------------------------------------------------------------------------
\* the base URL as configured and with a slash added
BaseSpellings == { baseURL, baseURL \o <<"/">> }

\* C34: whatever followURLs' map holds, a call of follow with the base URL or
\* with the base URL and a slash returns false, whether the base URL ends in a
\* slash or not; and of the refLinks put on links only the first, the seed,
\* has the base URL (in either spelling) as its URL.
C34_BaseNeverAdmitted ==
    /\ \A u \in BaseSpellings : ~follow(uniqueURLs, baseURL, u).ok
    /\ lastU \in BaseSpellings => ~lastOK
    /\ enqueued # << >> => enqueued[1] = SeedLink(baseURL)
    /\ \A i \in 2..Len(enqueued) : enqueued[i].url \notin BaseSpellings

\* the coordinator has run a link to the base URL through follow and goes on
\* with the rest of the page's links, the seed being all that was enqueued
C34_Witness ==
    /\ coordPc = "range"
    /\ Len(hereLinks) = 2
    /\ hereLinks[1].url = <<"h", "x", "/", "c", ".", "p", "n", "g">>
    /\ baseURL = <<"h", "x">>
    /\ Len(enqueued) = 1

----------------------------------------------------------------------------
\* a worker's send on results or on outputLinks has gone through
WorkerSent ==
    \E w \in Workers :
        \/ wpc[w] = "sendResult" /\ wpc'[w] = "sendLinks"
        \/ wpc[w] = "sendLinks" /\ wpc'[w] = "select"

\* C35: results and outputLinks are closed only when every worker has
\* returned, and no worker is at a send on them once they are closed; links
\* is closed only in the coordinator's deferred call, after its loop, and
\* nothing is put on links from then on; resultsOutput is closed once, in the
\* coordinator's last deferred call, and nothing is sent on it from then on.
C35_NoSendOnClosedChannel ==
    /\ [](/\ closerPc # "wait" => \A w \in Workers : wpc[w] = "done"
          /\ linksClosed => coordPc \in {"defer3", "done"}
          /\ outCloses \in {0, 1}
          /\ outCloses = 1 => coordPc = "done"
          /\ coordPc = "range" => ~linksClosed
          /\ coordPc = "forward" => outCloses = 0)
    /\ [][/\ WorkerSent => (closerPc = "wait" /\ closerPc' = "wait")
          /\ enqueued' # enqueued => (~linksClosed /\ ~linksClosed')
          /\ delivered' # delivered => (outCloses = 0 /\ outCloses' = 0)
          /\ linksClosed' # linksClosed => (coordPc = "defer2" /\ enqueued' = enqueued)
          /\ outCloses' # outCloses => (coordPc = "defer3" /\ delivered' = delivered)]_vars

\* every channel has been closed after a crawl that delivered a Result and
\* enqueued a link, with more than one worker
C35_Witness ==
    /\ closerPc = "done"
    /\ linksClosed
    /\ outCloses = 1
    /\ goWorkers > 1
    /\ Len(delivered) >= 1
    /\ Len(enqueued) >= 2

----------------------------------------------------------------------------
\* rl was put on links (as the seed or by the coordinator)
WasEnqueued(rl) == \E i \in DOMAIN enqueued : enqueued[i] = rl

\* C36: links is closed only after ctx was cancelled; a worker that received
\* the zero refLink from the closed channel finds ctx done at rateLimit.Wait;
\* every call of getURLer is made with a refLink that was put on links, never
\* with the zero refLink, and every URL getURLer was called for is the URL of
\* such a refLink.
C36_OnlyEnqueuedEntriesFetched ==
    /\ [](/\ linksClosed => ctxDone
          /\ \A w \in Workers :
                /\ (wpc[w] = "wait" /\ wrl[w] = ZeroRefLink) => ctxDone
                /\ wpc[w] \in {"sleep", "fetch", "sendResult", "sendLinks"} =>
                      (wrl[w] # ZeroRefLink /\ WasEnqueued(wrl[w]))
          /\ \A u \in DOMAIN fetched : \E i \in DOMAIN enqueued : enqueued[i].url = u)
    /\ [][\A w \in Workers :
            FetchStartStep(w) => (wrl[w] # ZeroRefLink /\ WasEnqueued(wrl[w]))]_vars

\* a worker has received the zero refLink from the closed links and is at
\* rateLimit.Wait, while getURLer has been called for enqueued refLinks
C36_Witness ==
    /\ linksClosed
    /\ \E w \in Workers : wpc[w] = "wait" /\ wrl[w] = ZeroRefLink
    /\ DOMAIN fetched # {}

----------------------------------------------------------------------------
\* the Result of the page at u is among the first n Results delivered
DeliveredBefore(u, n) == \E j \in 1..n : delivered[j].url = u

\* C37: every Result delivered, but for the base URL's, has as its referrer
\* the URL of a Result delivered before it; and every refLink put on links
\* after the seed has as its referrer the URL of a Result already delivered.
C37_ReferrerDeliveredFirst ==
    /\ \A i \in DOMAIN delivered :
          delivered[i].url # baseURL => DeliveredBefore(delivered[i].referrer, i - 1)
    /\ \A k \in 2..Len(enqueued) : DeliveredBefore(enqueued[k].referrer, Len(delivered))

\* three Results delivered, the second page linked to before the first one:
\* not in the order of discovery, each after the Result of its referrer
C37_Witness ==
    /\ Len(delivered) = 3
    /\ delivered[1].url = baseURL
    /\ delivered[2].url = <<"h", "x", "/", "b">>
    /\ delivered[3].url = <<"h", "x", "/", "a">>
    /\ delivered[2].referrer = baseURL
    /\ delivered[3].referrer = baseURL

----------------------------------------------------------------------------
\* case r, ok := <-results with ok: the coordinator receives a worker's Result
ResultEvent == \E w \in Workers : wpc[w] = "sendResult" /\ wpc'[w] = "sendLinks"

\* C38: with time taken into account: a Result event leaves the idle timer
\* armed to expire DISPATCHERTIMEOUT from then, whether it had expired before
\* or not; the timer's value is taken out of timeout.C by the timeout case
\* alone, so that toResetter's receive from timeout.C after a failed Stop
\* finds a value there; and the coordinator returns on its timeout case only
\* on an expiry of the timer as last reset, DISPATCHERTIMEOUT or more after
\* the last Result event.
C38_IdleAFullWindowAfterLastResult ==
    /\ [][ResultEvent => timer' = [state |-> "armed", expires |-> now + idleWindow]]_vars
    /\ [][(exitPath = "none" /\ exitPath' = "timeout") =>
             (timer.state = "fired" /\ now >= timer.expires)]_vars
    /\ [][timer'.expires # timer.expires => ResultEvent]_vars
    /\ [](/\ timer.state = "fired" => now >= timer.expires
          /\ timer.state = "drained" => exitPath = "timeout"
          /\ exitPath = "timeout" => now >= timer.expires)

\* the timer, reset at least once, has expired with its value in timeout.C
\* and the coordinator is at its select with a worker's Result ready as well
C38_Witness ==
    /\ timer.state = "fired"
    /\ timer.expires > idleWindow
    /\ coordPc = "select"
    /\ exitPath = "none"
    /\ \E w \in Workers : wpc[w] = "sendResult"

====
